---- MODULE Spec2Model ----
(***************************************************************************)
(* A model of input_to_schema: the conversion engine between an annotated  *)
(* TypeScript record type and an Apify-style input schema.                  *)
(*                                                                          *)
(*   - cleanUpSchema            the schema normalizer                       *)
(*   - convertTypeToSchema ...  the forward walker (type graph -> schema)   *)
(*   - getSchemaFromSourcePath  of src/index.ts (walker + destructuring     *)
(*                              defaults)                                   *)
(*   - convertSchemaToType ...  the declaration emitter (schema -> text)    *)
(*                                                                          *)
(* A JavaScript object is modelled as the sequence of its entries in        *)
(* insertion order; an entry is [k |-> key, v |-> value].  A value is a     *)
(* tagged record so that values of different JavaScript types can be        *)
(* compared.                                                                *)
(***************************************************************************)
EXTENDS Integers, Sequences, FiniteSets, TLC

VARIABLES
    pc,               \* position of the running command
    unorderedSchema,  \* the raw schema tree handed to cleanUpSchema
    schema,           \* the schema the command returns (normalized, defaults applied)
    recleaned,        \* cleanUpSchema applied to schema once more
    inputNode,        \* the declaration (type graph + documentation) being converted
    inputDefaults,    \* the destructuring elements with an initializer (src/index.ts)
    emitArgs,         \* the arguments of convertSchemaToType
    output,           \* the text convertSchemaToType returned
    batch,            \* the run of multiActorJsonToTypes: folder, loop position, results
    console,          \* what the run printed: one entry per console.log / console.error
    inputNodes        \* the declarations getDefaultsFromInputAssignMultiple selected

vars ==
    <<pc, unorderedSchema, schema, recleaned, inputNode, inputDefaults, emitArgs, output, batch,
      console, inputNodes>>

-----------------------------------------------------------------------------
(* JavaScript values *)

Val(t, s, l, p, n) == [t |-> t, s |-> s, l |-> l, p |-> p, n |-> n]

\* undefined
Undef == Val("undef", "", <<>>, <<>>, <<>>)
\* a string
Str(s) == Val("str", s, <<>>, <<>>, <<>>)
\* a number, by its decimal spelling
Num(s) == Val("num", s, <<>>, <<>>, <<>>)
\* true / false
Bool(b) == Val("bool", IF b THEN "true" ELSE "false", <<>>, <<>>, <<>>)
\* an array of strings
List(l) == Val("list", "", l, <<>>, <<>>)
\* a mapping name -> schema node (the value of 'properties')
Props(p) == Val("props", "", <<>>, p, <<>>)
\* a nested schema node (the value of 'items')
Nested(n) == Val("node", "", <<>>, <<>>, n)

\* JavaScript truthiness: undefined, '', false and 0 are falsy; every object
\* (an empty array included) is truthy.
Truthy(v) ==
    CASE v.t = "undef" -> FALSE
      [] v.t = "str" -> v.s # ""
      [] v.t = "num" -> v.s # "0"
      [] v.t = "bool" -> v.s = "true"
      [] OTHER -> TRUE

-----------------------------------------------------------------------------
(* JavaScript objects as ordered entry lists *)

Entry(k, v) == [k |-> k, v |-> v]

Keys(o) == [i \in 1..Len(o) |-> o[i].k]

HasKey(o, k) == \E i \in 1..Len(o) : o[i].k = k

IndexOf(o, k) == CHOOSE i \in 1..Len(o) : o[i].k = k

\* o[k]: undefined when the key is absent
Get(o, k) == IF HasKey(o, k) THEN o[IndexOf(o, k)].v ELSE Undef

\* o[k] = v: an existing key keeps its position, a new key goes last
Put(o, k, v) ==
    IF HasKey(o, k)
    THEN SubSeq(o, 1, IndexOf(o, k) - 1) \o <<Entry(k, v)>> \o SubSeq(o, IndexOf(o, k) + 1, Len(o))
    ELSE Append(o, Entry(k, v))

RemoveKey(e, k) == e.k # k

\* delete o[k]
Delete(o, k) == SelectSeq(o, LAMBDA e : RemoveKey(e, k))

RECURSIVE Spread(_, _)
\* {...a, ...b}
Spread(a, b) == IF b = <<>> THEN a ELSE Spread(Put(a, Head(b).k, Head(b).v), Tail(b))

\* membership in a JavaScript array of strings
Includes(l, x) == \E i \in 1..Len(l) : l[i] = x

NoDuplicates(l) == \A i, j \in 1..Len(l) : l[i] = l[j] => i = j

-----------------------------------------------------------------------------
(* Texts *)

RECURSIVE Join(_, _)
\* array.join(separator)
Join(l, separator) ==
    IF l = <<>> THEN ""
    ELSE IF Len(l) = 1 THEN l[1]
    ELSE l[1] \o separator \o Join(Tail(l), separator)

\* '\t'.repeat(level)
RECURSIVE Padding(_)
Padding(level) == IF level = 0 THEN "" ELSE "\t" \o Padding(level - 1)

DoubleQuoted(x) == "\"" \o x \o "\""

\* `${value}`
StringOf(v) ==
    CASE v.t \in {"str", "num", "bool"} -> v.s
      [] v.t = "list" -> Join(v.l, ",")
      [] v.t = "undef" -> "undefined"
      [] v.t = "null" -> "null"
      [] OTHER -> "[object Object]"

RECURSIVE JsonText(_)
RECURSIVE JsonTextEntries(_)
\* JSON.stringify(value) as text
JsonText(v) ==
    CASE v.t = "str" -> DoubleQuoted(v.s)
      [] v.t \in {"num", "bool"} -> v.s
      [] v.t = "list" -> "[" \o Join([i \in 1..Len(v.l) |-> DoubleQuoted(v.l[i])], ",") \o "]"
      [] v.t = "node" -> "{" \o Join(JsonTextEntries(v.n), ",") \o "}"
      [] v.t = "props" ->
            "{" \o Join([i \in 1..Len(v.p) |->
                            DoubleQuoted(v.p[i].k) \o ":" \o JsonText(Nested(v.p[i].v))], ",") \o "}"
      [] v.t = "undef" -> "undefined"
      [] OTHER -> "null"

JsonTextEntries(node) ==
    [i \in 1..Len(node) |-> DoubleQuoted(node[i].k) \o ":" \o JsonText(node[i].v)]

RECURSIVE JsonStringify(_)
RECURSIVE JsonStringifyProps(_)
\* What JSON.stringify writes of a value: keys holding undefined are left
\* out at every level, NaN is written as null.
JsonStringifyProps(p) ==
    IF p = <<>> THEN <<>>
    ELSE <<Entry(Head(p).k, JsonStringify(Head(p).v))>> \o JsonStringifyProps(Tail(p))

JsonStringifyValue(v) ==
    CASE v.t = "props" -> Props(JsonStringifyProps(v.p))
      [] v.t = "node" -> Nested(JsonStringify(v.n))
      [] v.t = "nan" -> Val("null", "", <<>>, <<>>, <<>>)
      [] OTHER -> v

JsonStringify(node) ==
    IF node = <<>> THEN <<>>
    ELSE IF Head(node).v = Undef THEN JsonStringify(Tail(node))
    ELSE <<Entry(Head(node).k, JsonStringifyValue(Head(node).v))>> \o JsonStringify(Tail(node))

-----------------------------------------------------------------------------
(* SchemaNormalizer: cleanUpSchema *)

\* The keys the normalizer places first, in this order.
FixedKeys == <<"title", "type", "description", "editor">>

IsFixedKey(k) == \E i \in 1..Len(FixedKeys) : FixedKeys[i] = k

OtherEntry(e) == ~IsFixedKey(e.k)

RECURSIVE Reverse(_)
Reverse(q) == IF q = <<>> THEN <<>> ELSE Append(Reverse(Tail(q)), Head(q))

\* The remaining keys copied in reverse input order.
OrderKeysReversed(u) ==
    [i \in 1..Len(FixedKeys) |-> Entry(FixedKeys[i], Get(u, FixedKeys[i]))]
        \o Reverse(SelectSeq(u, OtherEntry))

\* The Map built from the input: the four fixed keys first (set even when the
\* input lacks them, then undefined), then every other key in input order.
OrderKeys(u) ==
    [i \in 1..Len(FixedKeys) |-> Entry(FixedKeys[i], Get(u, FixedKeys[i]))]
        \o SelectSeq(u, OtherEntry)

\* schema.delete('required') unless the node's type is 'object'
StripRequired(m) == IF Get(m, "type") # Str("object") THEN Delete(m, "required") ELSE m

Defined(e) == e.v # Undef

\* every key whose value is undefined is deleted from the Map
DeleteUndefined(m) == SelectSeq(m, Defined)

RECURSIVE cleanUpSchema(_)
RECURSIVE CleanProperties(_)

\* properties[name] = cleanUpSchema(properties[name]) for every name
CleanProperties(p) ==
    IF p = <<>> THEN <<>>
    ELSE <<Entry(Head(p).k, cleanUpSchema(Head(p).v))>> \o CleanProperties(Tail(p))

\* Only the 'properties' of a node of type 'object' are normalized; the value
\* of any other key ('items' included) is copied as it is.
CleanChildren(m) ==
    IF Get(m, "type") = Str("object") /\ Truthy(Get(m, "properties"))
    THEN Put(m, "properties", Props(CleanProperties(Get(m, "properties").p)))
    ELSE m

cleanUpSchema(u) == DeleteUndefined(StripRequired(CleanChildren(OrderKeys(u))))

-----------------------------------------------------------------------------
(* Bounded schema trees handed to the normalizer *)

\* Nesting depth of the raw trees.
MaxDepth == 2

NodeTypes == {"string", "array", "object"}

\* The 'required' a raw node may carry: a flag copied from an annotation on a
\* member, a list on an object.
RawRequired(type) == IF type = "object" THEN List(<<"a">>) ELSE Bool(TRUE)

ReqEntries(type, req) == IF req THEN <<Entry("required", RawRequired(type))>> ELSE <<>>

\* A raw node: plain (type first) or decorated (keys out of canonical order,
\* one of them undefined), with the entries of its children last.
RawNode(type, req, decorated, children) ==
    IF decorated
    THEN <<Entry("default", Str("v"))>> \o ReqEntries(type, req)
            \o <<Entry("editor", Undef), Entry("type", Str(type)), Entry("title", Str("T"))>>
            \o children
    ELSE <<Entry("type", Str(type))>> \o ReqEntries(type, req) \o children

RawLeaves == {RawNode(t, r, d, <<>>) : t \in NodeTypes, r \in BOOLEAN, d \in BOOLEAN}

RECURSIVE RawTrees(_)
RawTrees(d) ==
    IF d = 0 THEN RawLeaves
    ELSE RawLeaves
         \cup {RawNode(t, r, dec, <<Entry("properties", Props(<<Entry("a", c)>>))>>) :
                 t \in NodeTypes, r \in BOOLEAN, dec \in BOOLEAN, c \in RawTrees(d - 1)}
         \cup {RawNode(t, r, dec, <<Entry("items", Nested(c))>>) :
                 t \in NodeTypes, r \in BOOLEAN, dec \in BOOLEAN, c \in RawTrees(d - 1)}

RECURSIVE AllNodes(_)
\* Every node of a tree: the node, the values of its 'properties' and the
\* schema under its 'items', at every nesting level.
AllNodes(node) ==
    {node}
    \cup UNION {AllNodes(Get(node, "properties").p[i].v) : i \in 1..Len(Get(node, "properties").p)}
    \cup (IF Get(node, "items").t = "node" THEN AllNodes(Get(node, "items").n) ELSE {})

-----------------------------------------------------------------------------
(* The normalizer applied once and twice *)

Idle == <<>>

NormInit ==
    /\ pc = "norm_raw"
    /\ unorderedSchema \in RawTrees(MaxDepth)
    /\ schema = Idle
    /\ recleaned = Idle
    /\ inputNode = Idle
    /\ inputDefaults = Idle
    /\ emitArgs = Idle
    /\ output = Idle
    /\ batch = Idle
    /\ console = <<>>
    /\ inputNodes = Idle

NormCleanUp ==
    /\ pc = "norm_raw"
    /\ schema' = cleanUpSchema(unorderedSchema)
    /\ pc' = "norm_once"
    /\ UNCHANGED <<unorderedSchema, recleaned, inputNode, inputDefaults, emitArgs, output,
                 batch, console, inputNodes>>

NormCleanUpAgain ==
    /\ pc = "norm_once"
    /\ recleaned' = cleanUpSchema(schema)
    /\ pc' = "norm_twice"
    /\ UNCHANGED <<unorderedSchema, schema, inputNode, inputDefaults, emitArgs, output, batch,
                 console, inputNodes>>

NormNext == NormCleanUp \/ NormCleanUpAgain

SpecNorm == NormInit /\ [][NormNext]_vars

\* C1: normalizing a normalized tree changes nothing: same keys, same key
\* order, same values at every nesting level.
NormalizerIdempotent == pc = "norm_twice" => recleaned = schema

\* A run where the first pass reordered keys, dropped an undefined key and
\* normalized a nested object, and the second pass has run.
NormalizerIdempotentWitness ==
    /\ pc = "norm_twice"
    /\ schema # unorderedSchema
    /\ Get(unorderedSchema, "editor") = Undef /\ HasKey(unorderedSchema, "editor")
    /\ Get(schema, "type") = Str("object")
    /\ \E c \in AllNodes(schema) : c # schema /\ Get(c, "type") = Str("object") /\ HasKey(c, "properties")

\* C2: after cleanUpSchema no node whose type is not 'object' has a
\* 'required' key, at any nesting level ('properties' values and 'items').
NoRequiredOnNonObjects ==
    pc = "norm_once" =>
        \A node \in AllNodes(schema) :
            Get(node, "type") # Str("object") => ~HasKey(node, "required")

-----------------------------------------------------------------------------
(* AnnotationParser: getJsDocFromNode *)

\* One '@name raw' occurrence of a documentation comment.
Tag(name, raw) == [name |-> name, raw |-> raw]

JSDOC_PROPS_TO_EVAL ==
    <<"default", "prefill", "minimum", "maximum", "enumTitles", "schemaVersion",
      "required", "items", "example">>

\* Display titles T1..Tn of an @enumTitles annotation.
RECURSIVE TitleList(_)
TitleList(n) == IF n = 0 THEN <<>> ELSE Append(TitleList(n - 1), "T" \o ToString(n))

RECURSIVE TitleItemsText(_)
TitleItemsText(n) ==
    IF n = 0 THEN ""
    ELSE IF n = 1 THEN "'T1'"
    ELSE TitleItemsText(n - 1) \o ", 'T" \o ToString(n) \o "'"

\* The source text of the array literal ['T1', ..., 'Tn'].
TitlesText(n) == "[" \o TitleItemsText(n) \o "]"

\* Longest @enumTitles literal an annotation carries.
MaxTitles == 2

\* The schema an @items annotation describes.
ItemsNode == <<Entry("type", Str("string")), Entry("required", Bool(TRUE))>>

\* The text of an @items annotation: a JSON string holding an expression.
ItemsText == "\"({type: 'string', required: true})\""

\* A text that is no expression.
MalformedText == "{"

\* The value thrown marker of an evaluation that throws.
Throws == Val("throws", "", <<>>, <<>>, <<>>)

\* eval(text) on the literal texts the bounded annotations use.
EvalLiteral(text) ==
    CASE text = "true" -> Bool(TRUE)
      [] text = "false" -> Bool(FALSE)
      [] text = "\"v\"" -> Str("v")
      [] text = "5" -> Num("5")
      [] text = "'admin'" -> Str("admin")
      [] \E n \in 0..MaxTitles : text = TitlesText(n) ->
            List(TitleList(CHOOSE n \in 0..MaxTitles : text = TitlesText(n)))
      [] OTHER -> Throws

\* eval(JSON.parse(text)) for @items
EvalItems(text) == IF text = ItemsText THEN Nested(ItemsNode) ELSE Throws

EvalTag(tag) == IF tag.name = "items" THEN EvalItems(tag.raw) ELSE EvalLiteral(tag.raw)

\* The marker a conversion returns when the run has exited (process.exit(1)).
Exited == <<Entry("$exit", Str("1"))>>

IsExit(node) == HasKey(node, "$exit")

\* One console.log (stdout) or console.error (stderr) with its arguments.
Printed(stream, args) == [stream |-> stream, args |-> args]

\* The marker of a run that printed once and exited.
ExitedWith(stream, args) ==
    Exited \o <<Entry("$stream", Str(stream)), Entry("$console", List(args))>>

\* What a conversion printed before it exited.
ExitReport(node) ==
    IF HasKey(node, "$console")
    THEN <<Printed(Get(node, "$stream").s, Get(node, "$console").l)>>
    ELSE <<>>

\* The exception eval throws on a text that is no expression.
EvalError(text) == "SyntaxError"

\* JSON.stringify of a string
JsonOfString(text) == "\"" \o text \o "\""

\* console.error(name, "with value", JSON.stringify(output[name]),
\*               "couldnt be evaluated because", e)
EvalReport(tag) ==
    <<tag.name, "with value", JsonOfString(tag.raw), "couldnt be evaluated because",
      EvalError(tag.raw)>>

RECURSIVE getJsDocFromNode(_)
\* The tags of a comment in order: output[name] = raw text, replaced by its
\* evaluation for the evaluable names; the run exits when that throws.
\* The argument lists the tags last first.
getJsDocFromNode(reversedTags) ==
    IF reversedTags = <<>> THEN <<>>
    ELSE LET before == getJsDocFromNode(Tail(reversedTags))
             tag == Head(reversedTags)
         IN  IF IsExit(before) THEN before
             ELSE IF Includes(JSDOC_PROPS_TO_EVAL, tag.name)
             THEN IF EvalTag(tag) = Throws THEN ExitedWith("stderr", EvalReport(tag))
                  ELSE Put(before, tag.name, EvalTag(tag))
             ELSE Put(before, tag.name, Str(tag.raw))

\* The documentation mapping of a node (a declaration or a member).
JsDocOf(node) == getJsDocFromNode(Reverse(node.doc))

-----------------------------------------------------------------------------
(* The type graph supplied by the TypeScript checker *)

\* A type node: its TypeFlags, whether checker.isArrayType holds, its
\* intrinsicName, the literal values of its union branches, its members.
TypeNode(flags, isArray, intrinsicName, types, members) ==
    [flags |-> flags, isArray |-> isArray, intrinsicName |-> intrinsicName,
     types |-> types, members |-> members]

StringType == TypeNode({"String"}, FALSE, "string", <<>>, <<>>)
NumberType == TypeNode({"Number"}, FALSE, "number", <<>>, <<>>)
\* boolean is the union true | false and carries both flags
BooleanType == TypeNode({"Boolean", "Union"}, FALSE, "boolean", <<"true", "false">>, <<>>)
UnionType(values) == TypeNode({"Union"}, FALSE, "", values, <<>>)
ArrayType == TypeNode({"Object"}, TRUE, "", <<>>, <<>>)
ObjectType(members) == TypeNode({"Object"}, FALSE, "", <<>>, members)
\* the 'object' keyword: the any-object marker
AnyObjectType == TypeNode({"NonPrimitive"}, FALSE, "object", <<>>, <<>>)
\* a non-primitive type that is not the 'object' keyword: none of the shapes
\* the walker knows
UnclassifiedType == TypeNode({"NonPrimitive"}, FALSE, "unclassified", <<>>, <<>>)
\* an enum of several members: the union of its members' literal types
EnumType(values) == TypeNode({"Union", "EnumLiteral"}, FALSE, "", values, <<>>)
\* the literal type of one enum member (Color.Red, or an enum of one
\* member): a literal type, not a union, with no 'types'
EnumLiteralType == TypeNode({"EnumLiteral", "StringLiteral"}, FALSE, "", <<>>, <<>>)
\* a string literal type 'x': a primitive that is none of string, number,
\* boolean
StringLiteralType == TypeNode({"StringLiteral"}, FALSE, "", <<>>, <<>>)

\* A member of an interface: its name, its '?' marker, the tags of its
\* documentation comment, its type.
Member(name, optional, doc, type) ==
    [name |-> name, optional |-> optional, doc |-> doc, type |-> type]

HasFlag(type, flag) == flag \in type.flags

-----------------------------------------------------------------------------
(* TypeGraphWalker: convertTypeToSchema and the functions it calls *)

\* enumlike.types.map(type => type.value)
convertEnumlikeIntoEnum(enumlike) == enumlike.types

\* Only union types have 'types'.
HasTypes(type) == HasFlag(type, "Union")

\* The marker of a run ended by an uncaught TypeError.
ThrownTypeError == Exited \o <<Entry("$error", Str("TypeError"))>>

\* { type: 'string', enum, ...doc }; enumlike.types.map throws when the
\* type has no 'types'
convertEnumlikeIntoSchema(enumlike, doc) ==
    IF ~HasTypes(enumlike) THEN ThrownTypeError
    ELSE Spread(<<Entry("type", Str("string")),
                  Entry("enum", List(convertEnumlikeIntoEnum(enumlike)))>>,
                doc)

\* { ...doc, type }
convertPrimitiveToSchema(type, doc) ==
    IF HasFlag(type, "String") THEN Put(doc, "type", Str("string"))
    ELSE IF HasFlag(type, "Number") THEN Put(doc, "type", Str("integer"))
    ELSE IF HasFlag(type, "Boolean") THEN Put(doc, "type", Str("boolean"))
    ELSE Put(doc, "type", Str("string"))

\* doc.uniqueItems && eval(doc.uniqueItems)
UniqueItemsOf(doc) ==
    IF Truthy(Get(doc, "uniqueItems")) THEN EvalLiteral(Get(doc, "uniqueItems").s)
    ELSE Get(doc, "uniqueItems")

\* { type: 'array', ...doc, uniqueItems }
convertArrayToSchema(array, doc) ==
    IF UniqueItemsOf(doc) = Throws THEN Exited
    ELSE Put(Spread(<<Entry("type", Str("array"))>>, doc), "uniqueItems", UniqueItemsOf(doc))

\* if (propertySchema.required) required.push(property.name)
RequiredMember(propertySchema) == Truthy(Get(propertySchema, "required"))

\* doc.description ??= ""
DefaultDescription(doc) ==
    IF Get(doc, "description") = Undef THEN Put(doc, "description", Str("")) ELSE doc

IsEnumLike(type) ==
    \/ HasFlag(type, "Enum")
    \/ HasFlag(type, "EnumLiteral")
    \/ (HasFlag(type, "Union") /\ ~HasFlag(type, "Boolean"))

RECURSIVE convertTypeToSchema(_, _, _)
RECURSIVE convertObjectToSchema(_, _, _)
RECURSIVE WalkMembers(_, _)

\* The loop over object.getProperties(): the members' schemas and the names
\* pushed to 'required', or the exit of the run.  The members come last first.
WalkMembers(reversedMembers, propertyPath) ==
    IF reversedMembers = <<>>
    THEN [exit |-> FALSE, props |-> <<>>, required |-> <<>>, marker |-> <<>>]
    ELSE LET before == WalkMembers(Tail(reversedMembers), propertyPath)
             property == Head(reversedMembers)
             propertyDoc == JsDocOf(property)
             propertySchema ==
                 convertTypeToSchema(property.type, propertyDoc, Append(propertyPath, property.name))
         IN  IF before.exit THEN before
             ELSE IF IsExit(propertyDoc)
             THEN [exit |-> TRUE, props |-> <<>>, required |-> <<>>, marker |-> propertyDoc]
             ELSE IF IsExit(propertySchema)
             THEN [exit |-> TRUE, props |-> <<>>, required |-> <<>>, marker |-> propertySchema]
             ELSE [exit |-> FALSE,
                   marker |-> <<>>,
                   props |-> Put(before.props, property.name, propertySchema),
                   required |-> IF RequiredMember(propertySchema)
                                THEN Append(before.required, property.name)
                                ELSE before.required]

\* { type: 'object', properties: schema, ...doc, required }
convertObjectToSchema(object, doc, propertyPath) ==
    IF object.isArray THEN convertArrayToSchema(object, doc)
    ELSE LET walked == WalkMembers(Reverse(object.members), propertyPath)
         IN  IF walked.exit THEN walked.marker
             ELSE Put(Spread(<<Entry("type", Str("object")),
                               Entry("properties", Props(walked.props))>>, doc),
                      "required", List(walked.required))

\* console.log(type): the type object as the console shows it
InspectType(type) == "TypeObject { intrinsicName: '" \o type.intrinsicName \o "' }"

convertTypeToSchema(type, doc0, propertyPath) ==
    LET doc == DefaultDescription(doc0)
    IN  IF IsEnumLike(type) THEN convertEnumlikeIntoSchema(type, doc)
        ELSE IF HasFlag(type, "Object") THEN convertObjectToSchema(type, doc, propertyPath)
        ELSE IF ~HasFlag(type, "NonPrimitive") THEN convertPrimitiveToSchema(type, doc)
        ELSE IF type.intrinsicName = "object" THEN Put(doc, "type", Str("object"))
        ELSE ExitedWith("stdout", <<InspectType(type)>>)

\* schema = convertObjectToSchema(type, {}, []); schema.editor = undefined;
\* { ...getJsDocFromNode(node), ...schema }
convertInputIntoSchema(node) ==
    LET converted == convertObjectToSchema(node.type, <<>>, <<>>)
    IN  IF IsExit(converted) THEN converted
        ELSE IF IsExit(JsDocOf(node)) THEN JsDocOf(node)
        ELSE Spread(JsDocOf(node), Put(converted, "editor", Undef))

-----------------------------------------------------------------------------
(* Bounded declarations handed to the forward path *)

\* Most branches of a union of string literals (a union has at least two).
MaxBranches == 2

RECURSIVE Branches(_)
\* the literal values 'e1' | ... | 'en'
Branches(n) == IF n = 0 THEN <<>> ELSE Append(Branches(n - 1), "e" \o ToString(n))

\* Every combination of a @required and a @default annotation.
ReqDefDocs ==
    { <<>>,
      <<Tag("required", "true")>>,
      <<Tag("default", "\"v\"")>>,
      <<Tag("default", "\"v\""), Tag("required", "true")>> }

StringDocs ==
    ReqDefDocs
    \cup { <<Tag("title", "Name"), Tag("description", "Name of the Account")>>,
           <<Tag("required", "false")>>,
           <<Tag("default", MalformedText)>>,
           <<Tag("minimum", "5")>>,
           <<Tag("see", "Name")>> }

ArrayDocs == ReqDefDocs \cup { <<Tag("items", ItemsText)>>, <<Tag("uniqueItems", "true")>> }

UnionDocs == ReqDefDocs \cup { <<Tag("enumTitles", TitlesText(n))>> : n \in 0..MaxTitles }

\* Members whose type has no members of its own.
LeafMembers(name) ==
    {Member(name, opt, doc, StringType) : opt \in BOOLEAN, doc \in StringDocs}
    \cup {Member(name, FALSE, doc, t) : doc \in ReqDefDocs, t \in {NumberType, BooleanType, AnyObjectType}}
    \cup {Member(name, FALSE, <<>>, UnclassifiedType)}
    \cup {Member(name, FALSE, doc, ArrayType) : doc \in ArrayDocs}
    \cup {Member(name, FALSE, doc, UnionType(Branches(n))) : doc \in UnionDocs, n \in 2..MaxBranches}

\* Members that are records themselves: empty, or with one leaf member.
NestedMembers(name) ==
    {Member(name, FALSE, doc, ObjectType(inner)) :
        doc \in ReqDefDocs,
        inner \in {<<>>} \cup {<<m>> : m \in LeafMembers("c")}}

TopDocs == { <<>>, <<Tag("title", "Input"), Tag("required", "true")>> }

\* The declarations converted: an interface of one or two members.
Declarations ==
    {[doc |-> doc, type |-> ObjectType(members)] :
        doc \in TopDocs,
        members \in {<<m>> : m \in LeafMembers("a") \cup NestedMembers("a")}
                    \cup {<<m, n>> : m \in LeafMembers("a") \cup NestedMembers("a"),
                                     n \in LeafMembers("b")}}

-----------------------------------------------------------------------------
(* type-to-json: the forward path *)

ForwardInit ==
    /\ pc = "fwd_start"
    /\ inputNode \in Declarations
    /\ unorderedSchema = Idle
    /\ schema = Idle
    /\ recleaned = Idle
    /\ inputDefaults = Idle
    /\ emitArgs = Idle
    /\ output = Idle
    /\ batch = Idle
    /\ console = <<>>
    /\ inputNodes = Idle

\* const schema = convertInputIntoSchema(checker, inputNode)
ForwardConvert ==
    /\ pc = "fwd_start"
    /\ LET converted == convertInputIntoSchema(inputNode)
       IN  IF IsExit(converted)
           THEN /\ pc' = "exited"
                /\ console' = console \o ExitReport(converted)
                /\ UNCHANGED unorderedSchema
           ELSE /\ pc' = "fwd_walked"
                /\ unorderedSchema' = converted
                /\ UNCHANGED console
    /\ UNCHANGED <<schema, recleaned, inputNode, inputDefaults, emitArgs, output, batch,
                   inputNodes>>

\* return cleanUpSchema(schema)
ForwardCleanUp ==
    /\ pc = "fwd_walked"
    /\ schema' = cleanUpSchema(unorderedSchema)
    /\ pc' = "fwd_done"
    /\ UNCHANGED <<unorderedSchema, recleaned, inputNode, inputDefaults, emitArgs, output,
                 batch, console, inputNodes>>

\* console.log(schema): the object as the console shows it, by its JSON spelling
Inspect(node) == JsonText(Nested(node))

\* console.log(schema); console.log(JSON.stringify(schema, undefined, 4)),
\* the indentation of the text left out
ForwardPrint ==
    /\ pc = "fwd_done"
    /\ console' = console \o <<Printed("stdout", <<Inspect(schema)>>),
                                Printed("stdout", <<JsonText(Nested(JsonStringify(schema)))>>)>>
    /\ pc' = "fwd_printed"
    /\ UNCHANGED <<unorderedSchema, schema, recleaned, inputNode, inputDefaults, emitArgs, output,
                   batch, inputNodes>>

ForwardNext == ForwardConvert \/ ForwardCleanUp \/ ForwardPrint

SpecForward == ForwardInit /\ [][ForwardNext]_vars

\* C3: every node of type 'object' of the canonical schema has a 'required'
\* that is a list of names without duplicates, each a key of its 'properties'.
ObjectRequiredWithinProperties ==
    pc = "fwd_done" =>
        \A node \in AllNodes(schema) :
            Get(node, "type") = Str("object") =>
                /\ Get(node, "required").t = "list"
                /\ NoDuplicates(Get(node, "required").l)
                /\ \A i \in 1..Len(Get(node, "required").l) :
                       HasKey(Get(node, "properties").p, Get(node, "required").l[i])

\* C4: an enum node the walker emits with 'enumTitles' has as many titles
\* as enum values.
EnumTitlesAligned ==
    pc = "fwd_walked" =>
        \A node \in AllNodes(unorderedSchema) :
            (HasKey(node, "enum") /\ HasKey(node, "enumTitles")) =>
                Len(Get(node, "enumTitles").l) = Len(Get(node, "enum").l)

\* C7: in an object node the walker emits, no member whose schema carries a
\* 'default' is listed in 'required'.
DefaultedMemberNotRequired ==
    pc = "fwd_walked" =>
        \A node \in AllNodes(unorderedSchema) :
            \A i \in 1..Len(Get(node, "properties").p) :
                Get(Get(node, "properties").p[i].v, "default") # Undef =>
                    ~(Get(node, "required").t = "list"
                      /\ Includes(Get(node, "required").l, Get(node, "properties").p[i].k))

-----------------------------------------------------------------------------
(* src/index.ts: the walker of the 'print' command *)

\* text.replace(/"/g, '') on the tag texts the bounded declarations use
StripQuotes(text) ==
    CASE text = "\"John\"" -> "John"
      [] text = "\"v\"" -> "v"
      [] OTHER -> text

\* a || b
OrElse(a, b) == IF Truthy(a) THEN a ELSE b

\* a && b
AndThen(a, b) == IF Truthy(a) THEN b ELSE a

\* NaN
NaN == Val("nan", "", <<>>, <<>>, <<>>)

\* parseFloat(text)
ParseFloat(text) == IF text = "5" THEN Num("5") ELSE NaN

\* JSON.parse of a default's text once its quotes are rewritten
\* (text.replace(/'/g, '"') for an array, the key-quoting replaces for a record)
JsonParse(text) ==
    CASE text = "['x']" -> List(<<"x">>)
      [] text = "5" -> Num("5")
      [] text = "{}" -> Nested(<<>>)
      [] OTHER -> Throws

RECURSIVE index_collectJsDoc(_)
\* collectedJsDoc[tag.name] = tag.text[0].text.replace(/"/g, ''), tags last first
index_collectJsDoc(reversedTags) ==
    IF reversedTags = <<>> THEN <<>>
    ELSE Put(index_collectJsDoc(Tail(reversedTags)),
             Head(reversedTags).name, Str(StripQuotes(Head(reversedTags).raw)))

\* { title: name || '', description: description || '', editor: editor || 'textfield',
\*   default, prefill }
index_convertJSDocToSchema(symbol) ==
    LET validatedJsDoc == index_collectJsDoc(Reverse(symbol.doc))
    IN  <<Entry("title", OrElse(Get(validatedJsDoc, "name"), Str(""))),
          Entry("description", OrElse(Get(validatedJsDoc, "description"), Str(""))),
          Entry("editor", OrElse(Get(validatedJsDoc, "editor"), Str("textfield"))),
          Entry("default", Get(validatedJsDoc, "default")),
          Entry("prefill", Get(validatedJsDoc, "prefill"))>>

\* { type: 'string', editor: 'select', title, description, default, prefill, enum }
index_convertEnumlikeIntoSchema(enumlike, doc) ==
    <<Entry("type", Str("string")),
      Entry("editor", Str("select")),
      Entry("title", Get(doc, "title")),
      Entry("description", Get(doc, "description")),
      Entry("default", Get(doc, "default")),
      Entry("prefill", Get(doc, "prefill")),
      Entry("enum", List(convertEnumlikeIntoEnum(enumlike)))>>

\* { ...doc, type, editor, default: doc.default && coerce(doc.default), prefill: ... }
index_convertPrimitiveToSchema(type, doc) ==
    IF HasFlag(type, "String")
    THEN Spread(doc, <<Entry("type", Str("string")), Entry("editor", Str("textfield")),
                       Entry("default", Get(doc, "default")),
                       Entry("prefill", Get(doc, "prefill"))>>)
    ELSE IF HasFlag(type, "Number")
    THEN Spread(doc, <<Entry("type", Str("number")), Entry("editor", Str("number")),
                       Entry("default", AndThen(Get(doc, "default"), ParseFloat(Get(doc, "default").s))),
                       Entry("prefill", AndThen(Get(doc, "prefill"), ParseFloat(Get(doc, "prefill").s)))>>)
    ELSE IF HasFlag(type, "Boolean")
    THEN Spread(doc, <<Entry("type", Str("boolean")), Entry("editor", Str("checkmark")),
                       Entry("default", AndThen(Get(doc, "default"), Bool(Truthy(Get(doc, "default"))))),
                       Entry("prefill", AndThen(Get(doc, "prefill"), Bool(Truthy(Get(doc, "prefill")))))>>)
    ELSE Spread(doc, <<Entry("type", Str("string")), Entry("editor", Str("textfield"))>>)

\* doc.default = doc.default && JSON.parse(...); { ...doc, type: 'array', editor: 'textfield' }
index_convertArrayToSchema(array, doc) ==
    LET parsed == AndThen(Get(doc, "default"), JsonParse(Get(doc, "default").s))
    IN  IF parsed = Throws THEN Exited
        ELSE Spread(Put(doc, "default", parsed),
                    <<Entry("type", Str("array")), Entry("editor", Str("textfield"))>>)

\* !(property.flags & Optional) && propertySchema.default === undefined
index_RequiredMember(property, propertySchema) ==
    ~property.optional /\ Get(propertySchema, "default") = Undef

RECURSIVE index_convertTypeToSchema(_, _, _)
RECURSIVE index_convertObjectToSchema(_, _, _)
RECURSIVE index_WalkMembers(_, _)

index_WalkMembers(reversedMembers, propertyPath) ==
    IF reversedMembers = <<>> THEN [exit |-> FALSE, props |-> <<>>, required |-> <<>>]
    ELSE LET before == index_WalkMembers(Tail(reversedMembers), propertyPath)
             property == Head(reversedMembers)
             propertySchema ==
                 index_convertTypeToSchema(property.type, index_convertJSDocToSchema(property),
                                           Append(propertyPath, property.name))
         IN  IF before.exit \/ IsExit(propertySchema)
             THEN [exit |-> TRUE, props |-> <<>>, required |-> <<>>]
             ELSE [exit |-> FALSE,
                   props |-> Put(before.props, property.name, propertySchema),
                   required |-> IF index_RequiredMember(property, propertySchema)
                                THEN Append(before.required, property.name)
                                ELSE before.required]

\* doc.default = doc.default && JSON.parse(...) (the key is created, undefined,
\* when doc lacks it); { ...doc, type: 'object', editor: 'textfield', properties, required }
index_convertObjectToSchema(object, doc, propertyPath) ==
    IF object.isArray THEN index_convertArrayToSchema(object, doc)
    ELSE LET walked == index_WalkMembers(Reverse(object.members), propertyPath)
             parsed == AndThen(Get(doc, "default"), JsonParse(Get(doc, "default").s))
         IN  IF walked.exit \/ parsed = Throws THEN Exited
             ELSE Spread(Put(doc, "default", parsed),
                         <<Entry("type", Str("object")), Entry("editor", Str("textfield")),
                           Entry("properties", Props(walked.props)),
                           Entry("required", List(walked.required))>>)

index_convertTypeToSchema(type, doc, propertyPath) ==
    IF IsEnumLike(type) THEN index_convertEnumlikeIntoSchema(type, doc)
    ELSE IF HasFlag(type, "Object") THEN index_convertObjectToSchema(type, doc, propertyPath)
    ELSE IF ~HasFlag(type, "NonPrimitive") THEN index_convertPrimitiveToSchema(type, doc)
    ELSE Exited

\* schema = convertObjectToSchema(type, {}, []); delete schema['editor']
index_convertInputIntoSchema(node) ==
    LET converted == index_convertObjectToSchema(node.type, <<>>, <<>>)
    IN  IF IsExit(converted) THEN Exited ELSE Delete(converted, "editor")

-----------------------------------------------------------------------------
(* src/index.ts: getSchemaFromSourcePath and the 'print' command *)

\* An element of the destructuring pattern: its name and the text of its
\* initializer ("" when it has none).
Binding(name, initializer) == [name |-> name, initializer |-> initializer]

HasInitializer(element) == element.initializer # ""

\* elements.filter(element => element.initializer)
getDefaultsFromInputAssign(sourceFile) == SelectSeq(sourceFile.elements, HasInitializer)

\* The default is set and the name stays in 'required'.
ApplyDefaultKeepingRequired(objectSchema, d) ==
    Put(objectSchema, "properties",
        Props(Put(Get(objectSchema, "properties").p, d.name,
                  Put(Get(Get(objectSchema, "properties").p, d.name), "default",
                      EvalLiteral(d.initializer)))))

\* One pass of the loop over inputDefaults:
\* property.default = eval(initializer); required = required.filter(p => p != name)
ApplyDefault(objectSchema, d) ==
    Put(Put(objectSchema, "properties",
            Props(Put(Get(objectSchema, "properties").p, d.name,
                      Put(Get(Get(objectSchema, "properties").p, d.name), "default",
                          EvalLiteral(d.initializer))))),
        "required",
        List(SelectSeq(Get(objectSchema, "required").l, LAMBDA p : p # d.name)))

RECURSIVE ApplyDefaults(_, _)
\* for (const d of inputDefaults) ..., the defaults last first
ApplyDefaults(objectSchema, reversedDefaults) ==
    IF reversedDefaults = <<>> THEN objectSchema
    ELSE ApplyDefault(ApplyDefaults(objectSchema, Tail(reversedDefaults)), Head(reversedDefaults))

-----------------------------------------------------------------------------
(* Bounded source files handed to 'print' *)

ReadmeNameDoc ==
    <<Tag("name", "Name"), Tag("description", "Name of the Account"), Tag("prefill", "\"John\"")>>

ReadmeRoleDoc == <<Tag("name", "Role"), Tag("description", "Role of the account")>>

ReadmeRoleType == UnionType(<<"admin", "normal">>)

\* The source file of src/README.md.
ReadmeSource ==
    [destructured |-> TRUE,
     type |-> ObjectType(<<Member("name", FALSE, ReadmeNameDoc, StringType),
                           Member("role", FALSE, ReadmeRoleDoc, ReadmeRoleType)>>),
     elements |-> <<Binding("role", "'admin'")>>]

\* The result src/README.md documents for it.
ReadmeSchema ==
    <<Entry("type", Str("object")),
      Entry("properties", Props(<<
          Entry("name", <<Entry("title", Str("Name")),
                          Entry("description", Str("Name of the Account")),
                          Entry("editor", Str("textfield")),
                          Entry("prefill", Str("John")),
                          Entry("type", Str("string"))>>),
          Entry("role", <<Entry("type", Str("string")),
                          Entry("editor", Str("select")),
                          Entry("title", Str("Role")),
                          Entry("description", Str("Role of the account")),
                          Entry("default", Str("admin")),
                          Entry("enum", List(<<"admin", "normal">>))>>)>>)),
      Entry("required", List(<<>>))>>

NameMembers ==
    {Member("name", opt, doc, t) :
        opt \in BOOLEAN,
        doc \in {ReadmeNameDoc, <<>>, <<Tag("default", "5")>>},
        t \in {StringType, NumberType, BooleanType, ArrayType}}

RoleMembers ==
    {Member("role", opt, doc, t) :
        opt \in BOOLEAN,
        doc \in {ReadmeRoleDoc, <<Tag("default", "\"v\"")>>},
        t \in {ReadmeRoleType, ObjectType(<<Member("c", FALSE, <<>>, StringType)>>), AnyObjectType}}

\* The ways one name occurs in the pattern: not at all, without an
\* initializer, with one.
BindingsOf(name) ==
    {<<>>, <<Binding(name, "")>>, <<Binding(name, "'admin'")>>, <<Binding(name, "5")>>}

\* Patterns over name and role, and a binding 'r' that names no member.
Patterns ==
    {n \o r \o x : n \in BindingsOf("name"), r \in BindingsOf("role"),
                   x \in {<<>>, <<Binding("r", "5")>>}}

IndexSources ==
    {[destructured |-> TRUE, type |-> ObjectType(members), elements |-> elements] :
        members \in {<<n>> : n \in NameMembers} \cup {<<n, r>> : n \in NameMembers, r \in RoleMembers},
        elements \in Patterns}
    \cup {[destructured |-> FALSE, type |-> ObjectType(<<n>>), elements |-> <<>>] : n \in NameMembers}

IndexInit ==
    /\ pc = "idx_start"
    /\ inputNode \in IndexSources
    /\ inputDefaults = Idle
    /\ unorderedSchema = Idle
    /\ schema = Idle
    /\ recleaned = Idle
    /\ emitArgs = Idle
    /\ output = Idle
    /\ batch = Idle
    /\ console = <<>>
    /\ inputNodes = Idle

\* getDefaultsFromInputAssign: without a destructuring of an Input value no
\* input type is found and the run exits.
IndexGetDefaults ==
    /\ pc = "idx_start"
    /\ IF inputNode.destructured
       THEN /\ inputDefaults' = getDefaultsFromInputAssign(inputNode)
            /\ pc' = "idx_found"
       ELSE /\ inputDefaults' = inputDefaults
            /\ pc' = "exited"
    /\ UNCHANGED <<unorderedSchema, schema, recleaned, inputNode, emitArgs, output, batch,
                   console, inputNodes>>

\* const schema = convertInputIntoSchema(checker, inputNode)
IndexConvert ==
    /\ pc = "idx_found"
    /\ unorderedSchema' = index_convertInputIntoSchema(inputNode)
    /\ pc' = IF IsExit(unorderedSchema') THEN "exited" ELSE "idx_walked"
    /\ UNCHANGED <<schema, recleaned, inputNode, inputDefaults, emitArgs, output, batch,
                   console, inputNodes>>

\* The loop over inputDefaults; a binding that names no property makes
\* 'property' undefined and the assignment to property.default throws.
IndexApplyDefaults ==
    /\ pc = "idx_walked"
    /\ IF \A i \in 1..Len(inputDefaults) :
              HasKey(Get(unorderedSchema, "properties").p, inputDefaults[i].name)
       THEN /\ schema' = ApplyDefaults(unorderedSchema, Reverse(inputDefaults))
            /\ pc' = "idx_done"
       ELSE /\ schema' = schema
            /\ pc' = "crashed"
    /\ UNCHANGED <<unorderedSchema, recleaned, inputNode, inputDefaults, emitArgs, output,
                 batch, console, inputNodes>>

\* console.log(JSON.stringify(schema, undefined, 4))
IndexPrint ==
    /\ pc = "idx_done"
    /\ output' = JsonStringify(schema)
    /\ pc' = "idx_printed"
    /\ UNCHANGED <<unorderedSchema, schema, recleaned, inputNode, inputDefaults, emitArgs,
                 batch, console, inputNodes>>

IndexNext == IndexGetDefaults \/ IndexConvert \/ IndexApplyDefaults \/ IndexPrint

SpecIndex == IndexInit /\ [][IndexNext]_vars

\* C5: converting the declaration of the README prints exactly the schema
\* the README documents, whose 'required' is the empty list.
ReadmeExampleAsDocumented ==
    (pc = "idx_printed" /\ inputNode = ReadmeSource) => output = ReadmeSchema

PropertyOf(objectSchema, name) == Get(Get(objectSchema, "properties").p, name)

IsRequired(objectSchema, name) == Includes(Get(objectSchema, "required").l, name)

IsDefaulted(name) == \E i \in 1..Len(inputDefaults) : inputDefaults[i].name = name

\* C6: after the defaults step every pattern element with an initializer has
\* put the initializer's value in its property's 'default' and its name is
\* not in the top-level 'required'; every other property has its fields and
\* its 'required' membership unchanged.
DefaultsApplied ==
    pc = "idx_done" =>
        /\ \A i \in 1..Len(inputNode.elements) :
               inputNode.elements[i].initializer # "" =>
                   /\ Get(PropertyOf(schema, inputNode.elements[i].name), "default")
                          = EvalLiteral(inputNode.elements[i].initializer)
                   /\ ~IsRequired(schema, inputNode.elements[i].name)
        /\ \A j \in 1..Len(Get(unorderedSchema, "properties").p) :
               LET name == Get(unorderedSchema, "properties").p[j].k
               IN  ~(\E i \in 1..Len(inputNode.elements) :
                         /\ inputNode.elements[i].name = name
                         /\ inputNode.elements[i].initializer # "") =>
                       /\ PropertyOf(schema, name) = PropertyOf(unorderedSchema, name)
                       /\ IsRequired(schema, name) <=> IsRequired(unorderedSchema, name)
        /\ Keys(Get(schema, "properties").p) = Keys(Get(unorderedSchema, "properties").p)

\* A run where a defaulted member was required before the step, and another
\* member, bound without an initializer, is still required after it.
DefaultsAppliedWitness ==
    /\ pc = "idx_done"
    /\ \E i \in 1..Len(inputDefaults) : IsRequired(unorderedSchema, inputDefaults[i].name)
    /\ \E i \in 1..Len(inputNode.elements) :
           /\ inputNode.elements[i].initializer = ""
           /\ IsRequired(schema, inputNode.elements[i].name)

-----------------------------------------------------------------------------
(* DeclarationEmitter: convertJsDoccableToString and convertSchemaToType    *)
(*                                                                          *)
(* A text is the sequence of its lines; a line is the sequence of the       *)
(* parts its template literal is made of.                                   *)

\* The text after '@name ' for an entry of the node.
FormattedValue(value, required, entry) ==
    IF Includes(JSDOC_PROPS_TO_EVAL, entry.k)
    THEN IF entry.k = "required" THEN ""
         ELSE IF Get(value, "type") = Str("string") /\ entry.k \in {"default", "prefill", "example"}
         THEN DoubleQuoted(StringOf(entry.v))
         ELSE JsonText(entry.v)
    ELSE StringOf(entry.v)

\* Whether the loop writes a line for the entry.
WritesLine(required, entry) ==
    /\ entry.k \notin {"type", "enum", "properties"}
    /\ ~(entry.k = "description" /\ entry.v = Str(""))
    /\ ~(entry.k = "required" /\ ~required)

RECURSIVE DocLines(_, _, _, _)
\* the lines ' * @name value' of the entries, in order
DocLines(value, required, level, entries) ==
    IF entries = <<>> THEN <<>>
    ELSE (IF WritesLine(required, Head(entries))
          THEN << <<Padding(level), " * @", Head(entries).k, " ",
                    FormattedValue(value, required, Head(entries))>> >>
          ELSE <<>>)
         \o DocLines(value, required, level, Tail(entries))

convertJsDoccableToString(value, required, level) ==
    << <<Padding(level), "/**">> >>
    \o DocLines(value, required, level, value)
    \o (IF required THEN << <<Padding(level), " * @required true">> >> ELSE <<>>)
    \o << <<Padding(level), " */">> >>

\* The array spelling that ignores the editor.
ArraySpellingIgnoringEditor(node) == "any[]"

\* schema.editor === 'stringList' ? 'string[]' : 'any[]'
ArraySpelling(node) == IF Get(node, "editor") = Str("stringList") THEN "string[]" ELSE "any[]"

\* The in-place rewrite of schema.type at the start of convertSchemaToType.
RewriteType(node) ==
    IF Get(node, "type") = Str("integer") THEN Put(node, "type", Str("number"))
    ELSE IF Get(node, "type") = Str("array") THEN Put(node, "type", Str(ArraySpelling(node)))
    ELSE node

\* The marker taken from the caller's flag instead of the default.
OptionalMarkerFromFlag(jsDoccable, required) == IF required THEN "" ELSE "?"

\* jsDoccable.default !== undefined ? '?' : ''
OptionalMarker(jsDoccable, required) == IF Get(jsDoccable, "default") # Undef THEN "?" ELSE ""

\* The union with its values double-quoted.
EnumUnionDoubleQuoted(values) ==
    Join([i \in 1..Len(values) |-> DoubleQuoted(values[i])], " | ")

\* enum.map((each) => `'${each}'`).join(' | ')
EnumUnion(values) == Join([i \in 1..Len(values) |-> "'" \o values[i] \o "'"], " | ")

\* Whether the node is rendered as a block of its own: schema.type === 'object' && schema.id
IsStandalone(node) == Get(node, "type") = Str("object") /\ Truthy(Get(node, "id"))

\* No member is handed the required flag.
MemberRequiredNever(required, name) == FALSE

\* required ? required.includes(name) : false
MemberRequired(required, name) == IF Truthy(required) THEN Includes(required.l, name) ELSE FALSE

RECURSIVE convertSchemaToType(_, _, _, _)
RECURSIVE EmitMembers(_, _, _)

\* The loop over Object.entries(properties), the members last first: the
\* lines written and the members as the calls left them.
EmitMembers(reversedProperties, required, level) ==
    IF reversedProperties = <<>> THEN [text |-> <<>>, properties |-> <<>>]
    ELSE LET before == EmitMembers(Tail(reversedProperties), required, level)
             member == Head(reversedProperties)
             emitted == convertSchemaToType(member.k, member.v,
                                            MemberRequired(required, member.k), level + 1)
         IN  [text |-> before.text \o emitted.text \o << <<>>, <<>> >>,
              properties |-> Append(before.properties, Entry(member.k, emitted.schema))]

\* The text returned and the schema argument as the call leaves it.
convertSchemaToType(name, schema0, required, level) ==
    LET rewritten == RewriteType(schema0)
        jsDoccable == JsonStringify(rewritten)
    IN  IF IsStandalone(rewritten)
        THEN LET members == IF Truthy(Get(rewritten, "properties"))
                            THEN EmitMembers(Reverse(Get(rewritten, "properties").p),
                                             Get(rewritten, "required"), level)
                            ELSE [text |-> <<>>, properties |-> <<>>]
             IN  [text |-> convertJsDoccableToString(jsDoccable, FALSE, level)
                           \o << <<"type ", name, " = {">> >>
                           \o members.text
                           \o << <<"}">> >>,
                  schema |-> IF Truthy(Get(rewritten, "properties"))
                             THEN Put(rewritten, "properties", Props(members.properties))
                             ELSE rewritten]
        ELSE [text |-> convertJsDoccableToString(jsDoccable, required, level)
                       \o << <<Padding(level), name, OptionalMarker(jsDoccable, required), ": ",
                               IF Truthy(Get(jsDoccable, "enum"))
                               THEN EnumUnion(Get(jsDoccable, "enum").l)
                               ELSE StringOf(Get(rewritten, "type"))>> >>,
              schema |-> rewritten]

-----------------------------------------------------------------------------
(* Bounded schemas handed to convertSchemaToType *)

OptionalEntry(k, present, v) == IF present THEN <<Entry(k, v)>> ELSE <<>>

EmitTypes == {"string", "integer", "boolean", "array", "object"}

\* an absent editor is the empty string here
EmitEditors == {"", "stringList", "select"}

\* an absent default is undefined here
EmitDefaults == {Undef, Str("v"), Bool(FALSE)}

\* an absent enum is undefined here
EmitEnums == {Undef} \cup {List(Branches(n)) : n \in 0..MaxBranches}

FieldNode(type, editor, default, enum, withId) ==
    <<Entry("title", Str("T")), Entry("type", Str(type)), Entry("description", Str(""))>>
        \o OptionalEntry("editor", editor # "", Str(editor))
        \o OptionalEntry("default", default # Undef, default)
        \o OptionalEntry("enum", enum # Undef, enum)
        \o OptionalEntry("id", withId, Str("actor"))

FieldNodes ==
    {FieldNode(type, editor, default, enum, withId) :
        type \in EmitTypes, editor \in EmitEditors, default \in EmitDefaults,
        enum \in EmitEnums, withId \in BOOLEAN}

\* An actor's schema with one member 'a', as multiActorJsonToTypes hands it over.
ActorNode(member, required) ==
    <<Entry("title", Str("Input")), Entry("type", Str("object")),
      Entry("properties", Props(<<Entry("a", member)>>))>>
        \o OptionalEntry("required", required # Undef, required)
        \o <<Entry("id", Str("actor"))>>

ActorNodes ==
    {ActorNode(member, required) :
        member \in FieldNodes, required \in {Undef, List(<<>>), List(<<"a">>)}}

\* The members of the schemas with two members: plain and defaulted strings
\* and arrays, and a nested actor schema.
PairMembers ==
    {FieldNode(type, "", default, Undef, FALSE) :
        type \in {"string", "array"}, default \in {Undef, Str("v")}}
    \cup {FieldNode("object", "", Undef, Undef, TRUE)}

\* An actor's schema with two members, named in the order given.
PairNode(names, first, second, required) ==
    <<Entry("title", Str("Input")), Entry("type", Str("object")),
      Entry("properties", Props(<<Entry(names[1], first), Entry(names[2], second)>>))>>
        \o OptionalEntry("required", required # Undef, required)
        \o <<Entry("id", Str("actor"))>>

PairNodes ==
    {PairNode(names, first, second, required) :
        names \in {<<"a", "b">>, <<"b", "a">>},
        first \in PairMembers, second \in PairMembers,
        required \in {Undef, List(<<>>), List(<<"a">>), List(<<"b">>), List(<<"a", "b">>)}}

\* A field that stores a 'required' value of its own: the flag of an
\* annotated member, or the list of a nested object without an id.
StoredRequiredNode(type, required) ==
    FieldNode(type, "", Undef, Undef, FALSE) \o <<Entry("required", required)>>

StoredRequiredNodes ==
    {StoredRequiredNode(type, required) :
        type \in {"string", "object"},
        required \in {Bool(TRUE), Bool(FALSE), List(<<>>), List(<<"a">>)}}

\* A member that is an object with one member 'c' of its own, with or
\* without an id.
NestedObjectNode(inner, withId) ==
    <<Entry("title", Str("T")), Entry("type", Str("object")), Entry("description", Str("")),
      Entry("properties", Props(<<Entry("c", inner)>>))>>
        \o OptionalEntry("id", withId, Str("inner"))

\* An actor's schema whose member 'a' is such an object.
DeepNodes ==
    {ActorNode(NestedObjectNode(FieldNode(type, "", Undef, Undef, FALSE), withId), Undef) :
        type \in {"string", "integer"}, withId \in BOOLEAN}

EmitCalls ==
    {[name |-> "Input", schema |-> node, required |-> required, level |-> 0] :
        node \in FieldNodes \cup ActorNodes \cup PairNodes \cup StoredRequiredNodes \cup DeepNodes,
        required \in BOOLEAN}

EmitInit ==
    /\ pc = "emit_start"
    /\ emitArgs \in EmitCalls
    /\ unorderedSchema = Idle
    /\ schema = Idle
    /\ recleaned = Idle
    /\ inputNode = Idle
    /\ inputDefaults = Idle
    /\ output = Idle
    /\ batch = Idle
    /\ console = <<>>
    /\ inputNodes = Idle

\* One call of convertSchemaToType: 'output' is the text returned, 'schema'
\* the schema argument as the call leaves it.
EmitConvert ==
    /\ pc = "emit_start"
    /\ LET emitted == convertSchemaToType(emitArgs.name, emitArgs.schema,
                                          emitArgs.required, emitArgs.level)
       IN  /\ output' = emitted.text
           /\ schema' = emitted.schema
    /\ pc' = "emit_done"
    /\ UNCHANGED <<unorderedSchema, recleaned, inputNode, inputDefaults, emitArgs, batch,
                   console, inputNodes>>

EmitNext == EmitConvert

SpecEmit == EmitInit /\ [][EmitNext]_vars

\* The nodes of the call: the schema argument and, under a standalone
\* argument, its members, each with its name and nesting level.
NodeCalls ==
    {[name |-> emitArgs.name, schema |-> emitArgs.schema, level |-> emitArgs.level]}
    \cup (IF IsStandalone(emitArgs.schema) /\ HasKey(emitArgs.schema, "properties")
          THEN {[name |-> Get(emitArgs.schema, "properties").p[i].k,
                 schema |-> Get(emitArgs.schema, "properties").p[i].v,
                 level |-> emitArgs.level + 1] :
                    i \in 1..Len(Get(emitArgs.schema, "properties").p)}
          ELSE {})

\* The nodes rendered as a field, not as a block of their own.
FieldCalls == {f \in NodeCalls : ~IsStandalone(f.schema)}

\* The lines 'name: T' / 'name?: T' written for a node.
DeclarationLines(f) ==
    {output[i] : i \in {j \in 1..Len(output) :
        /\ Len(output[j]) = 5
        /\ output[j][1] = Padding(f.level)
        /\ output[j][2] = f.name
        /\ output[j][4] = ": "}}

\* C8: a field that is not rendered standalone gets exactly one declaration
\* line, and that line carries the optional marker '?' if and only if the
\* field's schema has a 'default' value, whatever the required flag of the call
\* and whether or not the enclosing node lists the field as required.
OptionalMarkerIffDefault ==
    pc = "emit_done" =>
        \A f \in FieldCalls :
            /\ Cardinality(DeclarationLines(f)) = 1
            /\ \A line \in DeclarationLines(f) :
                  line[3] = (IF HasKey(f.schema, "default") THEN "?" ELSE "")

OptionalMarkerIffDefaultWitness ==
    /\ pc = "emit_done"
    /\ emitArgs.required
    /\ ~IsStandalone(emitArgs.schema)
    /\ Get(emitArgs.schema, "default") = Bool(FALSE)
    /\ output[Len(output)] = <<"", "Input", "?", ": ", "boolean">>

\* The spelling the editor of an array node asks for.
ExpectedArraySpelling(node) ==
    IF HasKey(node, "editor") /\ Get(node, "editor") = Str("stringList")
    THEN "string[]" ELSE "any[]"

\* C9 as stated: every node of type 'array' is rendered with the type
\* expression 'string[]' when its editor is 'stringList' and with 'any[]' for
\* every other editor, an absent one included.
ArrayRenderedByEditor ==
    pc = "emit_done" =>
        \A f \in FieldCalls :
            Get(f.schema, "type") = Str("array") =>
                /\ DeclarationLines(f) # {}
                /\ \A line \in DeclarationLines(f) : line[5] = ExpectedArraySpelling(f.schema)

\* C9 amended: every node of type 'array' that has no 'enum' value is
\* rendered with the type expression 'string[]' when its editor is
\* 'stringList' and with 'any[]' for every other editor, an absent one included.
ArrayWithoutEnumRenderedByEditor ==
    pc = "emit_done" =>
        \A f \in FieldCalls :
            (Get(f.schema, "type") = Str("array") /\ ~HasKey(f.schema, "enum")) =>
                /\ DeclarationLines(f) # {}
                /\ \A line \in DeclarationLines(f) : line[5] = ExpectedArraySpelling(f.schema)

ArrayWithoutEnumRenderedByEditorWitness ==
    /\ pc = "emit_done"
    /\ Get(emitArgs.schema, "type") = Str("array")
    /\ Get(emitArgs.schema, "editor") = Str("stringList")
    /\ ~HasKey(emitArgs.schema, "enum")
    /\ output[Len(output)][5] = "string[]"

RECURSIVE UnionOfLiterals(_)
\* 'e1' | 'e2' | ... | 'en' for a non-empty list e1..en
UnionOfLiterals(values) ==
    IF Len(values) = 1 THEN "'" \o values[1] \o "'"
    ELSE "'" \o values[1] \o "' | " \o UnionOfLiterals(Tail(values))

HasEnumValues(node) == HasKey(node, "enum") /\ Get(node, "enum").l # <<>>

\* C10 as stated: every node with a non-empty 'enum' list e1..en is rendered
\* by a declaration line whose type expression is the union
\* 'e1' | ... | 'en', the values single-quoted in stored order, and by no
\* other type spelling.
EnumRenderedAsUnion ==
    pc = "emit_done" =>
        \A f \in NodeCalls :
            HasEnumValues(f.schema) =>
                /\ DeclarationLines(f) # {}
                /\ \A line \in DeclarationLines(f) :
                      line[5] = UnionOfLiterals(Get(f.schema, "enum").l)

\* C10 amended: every node with a non-empty 'enum' list e1..en that is not
\* rendered standalone (not an object with an id) is rendered by a declaration
\* line whose type expression is the union 'e1' | ... | 'en', the values
\* single-quoted in stored order, and by no other type spelling.
FieldEnumRenderedAsUnion ==
    pc = "emit_done" =>
        \A f \in FieldCalls :
            HasEnumValues(f.schema) =>
                /\ DeclarationLines(f) # {}
                /\ \A line \in DeclarationLines(f) :
                      line[5] = UnionOfLiterals(Get(f.schema, "enum").l)

FieldEnumRenderedAsUnionWitness ==
    /\ pc = "emit_done"
    /\ IsStandalone(emitArgs.schema)
    /\ \E f \in FieldCalls :
          /\ f.level = 1
          /\ Get(f.schema, "enum") = List(Branches(MaxBranches))
          /\ \E line \in DeclarationLines(f) :
                line[5] = UnionOfLiterals(Branches(MaxBranches))

RECURSIVE ExpectedMembers(_, _, _)
\* The members rendered one after another in the order of 'properties', one
\* level deeper, each required exactly when the list names it.
ExpectedMembers(properties, listed, level) ==
    IF properties = <<>> THEN <<>>
    ELSE convertSchemaToType(Head(properties).k, Head(properties).v,
                             Includes(listed, Head(properties).k), level + 1).text
         \o << <<>>, <<>> >>
         \o ExpectedMembers(Tail(properties), listed, level)

\* The names a node's 'required' list holds; none when the list is absent.
ListedNames(node) == IF HasKey(node, "required") THEN Get(node, "required").l ELSE <<>>

\* The positions of the text that open a block 'type <name> = {'.
BlockOpenings == {i \in 1..Len(output) : Len(output[i]) = 3 /\ output[i][1] = "type "}

\* The names of the declaration lines written at a level, in text order.
DeclaredNamesAt(level) ==
    LET DeclaresAt(line) == Len(line) = 5 /\ line[1] = Padding(level) /\ line[4] = ": "
        declarations == SelectSeq(output, DeclaresAt)
    IN  [i \in 1..Len(declarations) |-> declarations[i][2]]

\* The names of the members rendered as fields, in the order of 'properties'.
FieldNamesOf(node) ==
    LET IsField(e) == ~IsStandalone(e.v)
        fields == SelectSeq(Get(node, "properties").p, IsField)
    IN  [i \in 1..Len(fields) |-> fields[i].k]

\* C11: an object node with an id is rendered as a block 'type <name> = {'
\* ... '}' that holds the rendering of every member of 'properties' exactly
\* once, in the order of 'properties', one level deeper, each member with the
\* required flag true exactly when the node's 'required' list names it (false
\* for every member when the list is absent).
StandaloneBlockRendersMembers ==
    (pc = "emit_done" /\ IsStandalone(emitArgs.schema) /\ HasKey(emitArgs.schema, "properties")) =>
        /\ \E i \in BlockOpenings :
              /\ output[i] = <<"type ", emitArgs.name, " = {">>
              /\ SubSeq(output, i + 1, Len(output)) =
                    ExpectedMembers(Get(emitArgs.schema, "properties").p,
                                    ListedNames(emitArgs.schema), emitArgs.level)
                    \o << <<"}">> >>
        /\ DeclaredNamesAt(emitArgs.level + 1) = FieldNamesOf(emitArgs.schema)

StandaloneBlockRendersMembersWitness ==
    /\ pc = "emit_done"
    /\ IsStandalone(emitArgs.schema)
    /\ Keys(Get(emitArgs.schema, "properties").p) = <<"b", "a">>
    /\ Get(emitArgs.schema, "required") = List(<<"a">>)
    /\ DeclaredNamesAt(1) = <<"b", "a">>
    /\ \E i \in 1..Len(output) :
          /\ output[i] = <<Padding(1), " * @required true">>
          /\ \E j \in 1..(i - 1) : Len(output[j]) = 5 /\ output[j][2] = "b" /\ output[j][4] = ": "

\* A line of a documentation block that starts with '@required'.
IsRequiredLine(line) ==
    \/ Len(line) = 5 /\ line[2] = " * @" /\ line[3] = "required"
    \/ Len(line) = 2 /\ line[2] = " * @required true"

\* The positions of the '@required' lines of the text.
RequiredLines == {i \in 1..Len(output) : IsRequiredLine(output[i])}

\* C12: the documentation block written for a field holds exactly one
\* '@required' line, reading '@required true', when the flag of the call is
\* true, and no '@required' line when it is false, whether or not the node
\* stores a 'required' value and whatever that value is.
RequiredLineFromFlagOnly ==
    (pc = "emit_done" /\ ~IsStandalone(emitArgs.schema)) =>
        IF emitArgs.required
        THEN /\ Cardinality(RequiredLines) = 1
             /\ \A i \in RequiredLines : output[i] = <<Padding(emitArgs.level), " * @required true">>
        ELSE RequiredLines = {}

-----------------------------------------------------------------------------
(* Reverse batch: multiActorJsonToTypes and multiactor-json-to-type *)

\* Most units of an actors folder.
MaxUnits == 3

\* A file of a unit's .actor directory: its name and its parsed JSON content.
File(name, content) == [name |-> name, content |-> content]

\* A unit: the characters of its directory name and the files of its .actor
\* directory in listing order.
Unit(dir, files) == [dir |-> dir, files |-> files]

\* file.includes(part) on the file names of the bounded folders
FileNameIncludes(name, part) ==
    CASE part = "INPUT_SCHEMA.json" -> name \in {"INPUT_SCHEMA.json", "OLD_INPUT_SCHEMA.json"}
      [] part = "actor.json" -> name \in {"actor.json"}
      [] OTHER -> FALSE

\* files.find((file) => file.includes(part)): the first such name, or undefined
FindFile(files, part) ==
    LET Matches(file) == FileNameIncludes(file.name, part)
        found == SelectSeq(files, Matches)
    IN  IF found = <<>> THEN Undef ELSE Str(found[1].name)

\* A missing file read as an empty object instead of throwing.
ReadJsonOrEmpty(unit, path) ==
    LET Named(file) == file.name = StringOf(path)
        found == SelectSeq(unit.files, Named)
    IN  IF found = <<>> THEN Nested(<<>>) ELSE Nested(found[1].content)

\* JSON.parse(fs.readFileSync(`.../.actor/${path}`, 'utf8')): the content of
\* the file of that name; throws when there is none.
ReadJson(unit, path) ==
    LET Named(file) == file.name = StringOf(path)
        found == SelectSeq(unit.files, Named)
    IN  IF found = <<>> THEN Throws ELSE Nested(found[1].content)

\* The schema path taken from the schema file only.
SchemaPathOfSchemaFileOnly(unit) ==
    IF Truthy(FindFile(unit.files, "INPUT_SCHEMA.json"))
    THEN FindFile(unit.files, "INPUT_SCHEMA.json")
    ELSE Throws

\* The schema path of a unit: the schema file's name, else the manifest's
\* 'input'; Throws when the manifest cannot be read.
SchemaPathOf(unit) ==
    IF Truthy(FindFile(unit.files, "INPUT_SCHEMA.json"))
    THEN FindFile(unit.files, "INPUT_SCHEMA.json")
    ELSE LET actorInfo == ReadJson(unit, FindFile(unit.files, "actor.json"))
         IN  IF actorInfo = Throws THEN Throws ELSE Get(actorInfo.n, "input")

\* The schema loaded for a unit, or Throws.
LoadUnitSchema(unit) ==
    IF SchemaPathOf(unit) = Throws THEN Throws ELSE ReadJson(unit, SchemaPathOf(unit))

\* c.toUpperCase() on the characters of the bounded directory names
ToUpperCase(c) ==
    CASE c = "a" -> "A" [] c = "b" -> "B" [] c = "c" -> "C" [] c = "d" -> "D"
      [] c = "e" -> "E" [] c = "x" -> "X"
      [] OTHER -> c

RECURSIVE ReplaceDashPairs(_)
\* s.replace(/-./g, (x) => x[1].toUpperCase()) on the characters of s
ReplaceDashPairs(chars) ==
    IF Len(chars) < 2 THEN chars
    ELSE IF chars[1] = "-"
    THEN <<ToUpperCase(chars[2])>> \o ReplaceDashPairs(SubSeq(chars, 3, Len(chars)))
    ELSE <<chars[1]>> \o ReplaceDashPairs(Tail(chars))

\* camelize, on the characters of a non-empty name
camelize(chars) ==
    LET camelized == ReplaceDashPairs(chars)
    IN  Join(<<ToUpperCase(camelized[1])>> \o Tail(camelized), "")

\* The entry pushed to 'schemas' for a unit whose schema was loaded.
LoadedUnit(unit) ==
    [name |-> camelize(unit.dir), id |-> Join(unit.dir, ""), schema |-> LoadUnitSchema(unit).n]

\* The arguments of the call: `${schema.name}Input` and
\* {...schema.schema, id: schema.id}
EmitterCall(loaded) ==
    [name |-> loaded.name \o "Input",
     schema |-> Spread(loaded.schema, <<Entry("id", Str(loaded.id))>>)]

\* convertSchemaToType(`${schema.name}Input`, {...schema.schema, id: schema.id})
ConvertLoadedUnit(loaded) ==
    convertSchemaToType(EmitterCall(loaded).name, EmitterCall(loaded).schema, FALSE, 0).text

RECURSIVE JoinTexts(_)
\* inputTypesStrings.join('\n')
JoinTexts(texts) == IF texts = <<>> THEN <<>> ELSE Head(texts) \o JoinTexts(Tail(texts))

-----------------------------------------------------------------------------
(* Bounded actors folders *)

\* An input schema as a unit stores it.
StoredSchema ==
    <<Entry("title", Str("Input")), Entry("type", Str("object")),
      Entry("properties", Props(<<Entry("a", FieldNode("string", "", Undef, Undef, FALSE))>>)),
      Entry("required", List(<<"a">>))>>

\* An input schema that stores an id of its own.
StoredSchemaWithId ==
    <<Entry("title", Str("Input")), Entry("type", Str("object")),
      Entry("properties", Props(<<Entry("b", FieldNode("array", "stringList", Undef, Undef, FALSE))>>)),
      Entry("id", Str("stored"))>>

\* actor.json with an 'input' field
Manifest(input) == <<Entry("name", Str("unit")), Entry("input", Str(input))>>

\* actor.json without an 'input' field
ManifestWithoutInput == <<Entry("name", Str("unit"))>>

\* The listings of a unit's .actor directory: a schema file; a manifest
\* pointing at a schema file; a schema file next to a manifest whose pointer
\* dangles; a manifest whose pointer dangles; a manifest without pointer;
\* nothing.
ActorDirs ==
    { <<File("INPUT_SCHEMA.json", StoredSchema)>>,
      <<File("actor.json", Manifest("input.json")), File("input.json", StoredSchemaWithId)>>,
      <<File("OLD_INPUT_SCHEMA.json", StoredSchemaWithId),
        File("actor.json", Manifest("missing.json"))>>,
      <<File("actor.json", Manifest("missing.json"))>>,
      <<File("actor.json", ManifestWithoutInput)>>,
      <<>> }

\* Whether a listing gives the unit a schema: a schema file, or a manifest
\* whose pointer names a file of the listing.
HasSchemaFile(files) == \E i \in 1..Len(files) : FileNameIncludes(files[i].name, "INPUT_SCHEMA.json")

HasUsableManifest(files) ==
    \E i \in 1..Len(files) :
        /\ files[i].name = "actor.json"
        /\ HasKey(files[i].content, "input")
        /\ \E j \in 1..Len(files) : Str(files[j].name) = Get(files[i].content, "input")

\* The directory name of the unit at a position: 'a-x', 'b--x', 'c-x-',
\* 'dx', 'e-x'
DirName(position) ==
    (<< <<"a", "-", "x">>, <<"b", "-", "-", "x">>, <<"c", "-", "x", "-">>,
        <<"d", "x">>, <<"e", "-", "x">> >>)[position]

RECURSIVE Folders(_)
\* The folders of n units.
Folders(n) ==
    IF n = 0 THEN {<<>>}
    ELSE {Append(folder, Unit(DirName(n), files)) : folder \in Folders(n - 1), files \in ActorDirs}

ActorsFolders == UNION {Folders(n) : n \in 0..MaxUnits}

BatchInit ==
    /\ pc = "batch_start"
    /\ batch \in {[actorsFolder |-> folder, write |-> write, actorsDirs |-> <<>>,
                   schemas |-> <<>>, types |-> <<>>, stdout |-> <<>>, file |-> <<>>] :
                      folder \in ActorsFolders, write \in BOOLEAN}
    /\ unorderedSchema = Idle
    /\ schema = Idle
    /\ recleaned = Idle
    /\ inputNode = Idle
    /\ inputDefaults = Idle
    /\ emitArgs = Idle
    /\ output = Idle
    /\ console = <<>>
    /\ inputNodes = Idle

\* const actorsDirs = fs.readdirSync(actorsFolder)
BatchListUnits ==
    /\ pc = "batch_start"
    /\ batch' = [batch EXCEPT !.actorsDirs =
                    [i \in 1..Len(batch.actorsFolder) |-> Join(batch.actorsFolder[i].dir, "")]]
    /\ pc' = "batch_read"
    /\ UNCHANGED <<unorderedSchema, schema, recleaned, inputNode, inputDefaults, emitArgs,
                 output, console, inputNodes>>

\* One pass of the loop over actorsDirs: the unit's files are listed and read
\* and its schema pushed; an exception of readFileSync ends the run.
BatchReadUnit ==
    /\ pc = "batch_read"
    /\ Len(batch.schemas) < Len(batch.actorsDirs)
    /\ LET unit == batch.actorsFolder[Len(batch.schemas) + 1]
       IN  IF LoadUnitSchema(unit) = Throws
           THEN /\ pc' = "crashed"
                /\ UNCHANGED batch
           ELSE /\ batch' = [batch EXCEPT !.schemas = Append(@, LoadedUnit(unit))]
                /\ UNCHANGED pc
    /\ UNCHANGED <<unorderedSchema, schema, recleaned, inputNode, inputDefaults, emitArgs,
                 output, console, inputNodes>>

\* The map entered at any time.
LoopEndedOrNot(run) == TRUE

\* The loop over actorsDirs has ended: every unit's schema is pushed.
LoopEnded(run) == Len(run.schemas) = Len(run.actorsDirs)

\* One element of schemas.map(...), entered once the loop has ended.
BatchConvertUnit ==
    /\ pc = "batch_read"
    /\ LoopEnded(batch)
    /\ Len(batch.types) < Len(batch.schemas)
    /\ batch' = [batch EXCEPT !.types =
                    Append(@, ConvertLoadedUnit(batch.schemas[Len(batch.types) + 1]))]
    /\ emitArgs' = EmitterCall(batch.schemas[Len(batch.types) + 1])
    /\ UNCHANGED <<pc, unorderedSchema, schema, recleaned, inputNode, inputDefaults,
                 output, console, inputNodes>>

\* The action of multiactor-json-to-type once multiActorJsonToTypes returned:
\* the joined declarations are written to the --write file or printed.
BatchOutput ==
    /\ pc = "batch_read"
    /\ Len(batch.schemas) = Len(batch.actorsDirs)
    /\ Len(batch.types) = Len(batch.schemas)
    /\ batch' = IF batch.write
                THEN [batch EXCEPT !.file = Append(@, JoinTexts(batch.types))]
                ELSE [batch EXCEPT !.stdout = Append(@, JoinTexts(batch.types))]
    /\ pc' = "batch_done"
    /\ UNCHANGED <<unorderedSchema, schema, recleaned, inputNode, inputDefaults, emitArgs,
                 output, console, inputNodes>>

BatchNext == BatchListUnits \/ BatchReadUnit \/ BatchConvertUnit \/ BatchOutput

SpecBatch == BatchInit /\ [][BatchNext]_vars

\* The content the resolution rule names for a listing that has a schema
\* file or a usable manifest.
ExpectedContent(files) ==
    IF HasSchemaFile(files)
    THEN files[CHOOSE i \in 1..Len(files) :
                  /\ FileNameIncludes(files[i].name, "INPUT_SCHEMA.json")
                  /\ \A j \in 1..(i - 1) : ~FileNameIncludes(files[j].name, "INPUT_SCHEMA.json")].content
    ELSE LET manifest == files[CHOOSE i \in 1..Len(files) : files[i].name = "actor.json"].content
         IN  files[CHOOSE j \in 1..Len(files) : Str(files[j].name) = Get(manifest, "input")].content

Resolvable(unit) == HasSchemaFile(unit.files) \/ HasUsableManifest(unit.files)

ResolvableFolder == \A i \in 1..Len(batch.actorsFolder) : Resolvable(batch.actorsFolder[i])

\* C13: the schema loaded for a unit is the content of the file of its .actor
\* directory whose name includes 'INPUT_SCHEMA.json' when there is one, and
\* otherwise the content of the file the 'input' field of its actor.json
\* names; a batch whose units all have one or the other never fails and
\* returns exactly one declaration per unit.
UnitSchemaResolved ==
    /\ \A i \in 1..Len(batch.schemas) :
          batch.schemas[i].schema = ExpectedContent(batch.actorsFolder[i].files)
    /\ ResolvableFolder =>
          /\ pc # "crashed"
          /\ pc = "batch_done" => Len(batch.types) = Len(batch.actorsFolder)

UnitSchemaResolvedWitness ==
    /\ pc = "batch_done"
    /\ Len(batch.actorsFolder) = MaxUnits
    /\ Len(batch.types) = MaxUnits
    /\ HasSchemaFile(batch.actorsFolder[1].files)
    /\ HasSchemaFile(batch.actorsFolder[2].files)
    /\ ~HasSchemaFile(batch.actorsFolder[MaxUnits].files)
    /\ HasUsableManifest(batch.actorsFolder[MaxUnits].files)
    /\ batch.schemas[MaxUnits].schema = StoredSchemaWithId

\* C14: when some unit of the folder has neither a schema file nor a usable
\* manifest pointer, the run never returns: no declaration is produced,
\* nothing is printed and nothing is written, the units read before the
\* failing one included.
UnresolvableUnitAbortsBatch ==
    ~ResolvableFolder =>
        /\ pc # "batch_done"
        /\ batch.types = <<>>
        /\ batch.stdout = <<>>
        /\ batch.file = <<>>

UnresolvableUnitAbortsBatchWitness ==
    /\ pc = "crashed"
    /\ Len(batch.schemas) = 2
    /\ ~Resolvable(batch.actorsFolder[3])
    /\ batch.actorsFolder[3].files = <<File("actor.json", ManifestWithoutInput)>>
    /\ batch.types = <<>>
    /\ batch.stdout = <<>>
    /\ batch.file = <<>>

\* C18 as stated: the reading of unit N+1 does not begin until unit N's
\* schema has been read and converted to declaration text.
UnitConvertedBeforeNextIsRead == Len(batch.schemas) <= Len(batch.types) + 1

\* C18 amended: units are read strictly one after another in folder order,
\* no schema is converted to declaration text until every unit's schema has
\* been read, and the schemas are then converted one after another in the
\* same order.
UnitsReadThenConvertedInOrder ==
    /\ Len(batch.schemas) <= Len(batch.actorsDirs)
    /\ \A i \in 1..Len(batch.schemas) :
          batch.schemas[i].id = Join(batch.actorsFolder[i].dir, "")
    /\ Len(batch.types) <= Len(batch.schemas)
    /\ Len(batch.types) > 0 => Len(batch.schemas) = Len(batch.actorsFolder)
    /\ \A j \in 1..Len(batch.types) :
          batch.types[j] = ConvertLoadedUnit(batch.schemas[j])

UnitsReadThenConvertedInOrderWitness ==
    /\ pc = "batch_read"
    /\ Len(batch.schemas) = MaxUnits
    /\ Len(batch.types) = 2

-----------------------------------------------------------------------------
(* getJsDocFromNode on its own, in the latest variant and in the variant of *)
(* src/unnamed/part_003                                                     *)

part003_JSDOC_PROPS_TO_EVAL ==
    <<"default", "prefill", "minimum", "maximum", "enumTitles", "schemaVersion">>

RECURSIVE part003_getJsDocFromNode(_)
\* The variant whose catch block reports and goes on: the mapping returned,
\* a tag that could not be evaluated keeping its raw text, and what was
\* printed.  The argument lists the tags last first.
part003_getJsDocFromNode(reversedTags) ==
    IF reversedTags = <<>> THEN [output |-> <<>>, printed |-> <<>>]
    ELSE LET before == part003_getJsDocFromNode(Tail(reversedTags))
             tag == Head(reversedTags)
         IN  IF ~Includes(part003_JSDOC_PROPS_TO_EVAL, tag.name)
             THEN [output |-> Put(before.output, tag.name, Str(tag.raw)),
                   printed |-> before.printed]
             ELSE IF EvalLiteral(tag.raw) = Throws
             THEN [output |-> Put(before.output, tag.name, Str(tag.raw)),
                   printed |-> Append(before.printed, Printed("stderr", EvalReport(tag)))]
             ELSE [output |-> Put(before.output, tag.name, EvalLiteral(tag.raw)),
                   printed |-> before.printed]

\* Most tags of a documentation comment.
MaxTags == 2

\* A text each tag name evaluates (or, for title, keeps) and a text that is
\* no expression.
TagTexts(name) ==
    {MalformedText}
    \cup (CASE name = "default" -> {"\"v\""}
            [] name = "enumTitles" -> {TitlesText(1)}
            [] name = "required" -> {"true"}
            [] name = "items" -> {ItemsText}
            [] OTHER -> {"Name"})

CommentTags ==
    {Tag(name, raw) : name \in {"title"}, raw \in TagTexts("title")}
    \cup {Tag(name, raw) : name \in {"default"}, raw \in TagTexts("default")}
    \cup {Tag(name, raw) : name \in {"enumTitles"}, raw \in TagTexts("enumTitles")}
    \cup {Tag(name, raw) : name \in {"required"}, raw \in TagTexts("required")}
    \cup {Tag(name, raw) : name \in {"items"}, raw \in TagTexts("items")}

RECURSIVE Comments(_)
\* The comments of n tags.
Comments(n) ==
    IF n = 0 THEN {<<>>}
    ELSE {Append(comment, tag) : comment \in Comments(n - 1), tag \in CommentTags}

AnnotateInit ==
    /\ pc = "doc_start"
    /\ inputNode \in {[variant |-> variant, doc |-> doc] :
                        variant \in {"part_000", "part_003"},
                        doc \in UNION {Comments(n) : n \in 0..MaxTags}}
    /\ unorderedSchema = Idle
    /\ schema = Idle
    /\ recleaned = Idle
    /\ inputDefaults = Idle
    /\ emitArgs = Idle
    /\ output = Idle
    /\ batch = Idle
    /\ console = <<>>
    /\ inputNodes = Idle

\* getJsDocFromNode of src/unnamed/part_000: 'output' is the mapping returned
AnnotateLatest ==
    /\ pc = "doc_start"
    /\ inputNode.variant = "part_000"
    /\ LET returned == getJsDocFromNode(Reverse(inputNode.doc))
       IN  IF IsExit(returned)
           THEN /\ pc' = "exited"
                /\ console' = console \o ExitReport(returned)
                /\ UNCHANGED output
           ELSE /\ pc' = "doc_returned"
                /\ output' = returned
                /\ UNCHANGED console
    /\ UNCHANGED <<unorderedSchema, schema, recleaned, inputNode, inputDefaults, emitArgs,
                   batch, inputNodes>>

\* getJsDocFromNode of src/unnamed/part_003
AnnotateEarlier ==
    /\ pc = "doc_start"
    /\ inputNode.variant = "part_003"
    /\ LET returned == part003_getJsDocFromNode(Reverse(inputNode.doc))
       IN  /\ output' = returned.output
           /\ console' = console \o returned.printed
    /\ pc' = "doc_returned"
    /\ UNCHANGED <<unorderedSchema, schema, recleaned, inputNode, inputDefaults, emitArgs,
                   batch, inputNodes>>

AnnotateNext == AnnotateLatest \/ AnnotateEarlier

SpecAnnotate == AnnotateInit /\ [][AnnotateNext]_vars

\* The names the annotation parser is to evaluate.
EvaluableNames ==
    {"default", "prefill", "minimum", "maximum", "enumTitles", "schemaVersion", "required",
     "items", "example"}

\* The positions of the evaluable tags whose text is no expression.
MalformedTags(doc) ==
    {i \in 1..Len(doc) : doc[i].name \in EvaluableNames /\ EvalTag(doc[i]) = Throws}

\* C15: when the text of an evaluable tag cannot be evaluated,
\* getJsDocFromNode ends the run (exit status 1) after reporting the tag's
\* name, its raw text and the cause, and returns no mapping.
MalformedTagAbortsRun ==
    (pc # "doc_start" /\ MalformedTags(inputNode.doc) # {}) =>
        /\ pc = "exited"
        /\ output = Idle
        /\ \E i \in MalformedTags(inputNode.doc) :
              /\ \A j \in MalformedTags(inputNode.doc) : i <= j
              /\ console = <<Printed("stderr", <<inputNode.doc[i].name, "with value",
                                                 JsonOfString(inputNode.doc[i].raw),
                                                 "couldnt be evaluated because",
                                                 EvalError(inputNode.doc[i].raw)>>)>>

RECURSIVE PathsTo(_, _, _)
\* The property paths from a type to its members of a given type, the
\* members in order.
PathsTo(members, target, propertyPath) ==
    IF members = <<>> THEN {}
    ELSE (IF Head(members).type = target
          THEN {Append(propertyPath, Head(members).name)}
          ELSE PathsTo(Head(members).type.members, target,
                       Append(propertyPath, Head(members).name)))
         \cup PathsTo(Tail(members), target, propertyPath)

\* The console entries the classification failure printed.
ClassificationReports ==
    {i \in 1..Len(console) : Includes(console[i].args, InspectType(UnclassifiedType))}

\* A printed entry names a path: it holds the dotted path or every name of it.
NamesPath(args, propertyPath) ==
    \/ Includes(args, Join(propertyPath, "."))
    \/ \A i \in 1..Len(propertyPath) : Includes(args, propertyPath[i])

\* C16: when convertTypeToSchema meets a type that is none of the shapes it
\* knows, the run exits with status 1 and what it prints names the property
\* path that leads to the member of that type.
UnclassifiedTypeReportsPath ==
    (pc = "exited" /\ ClassificationReports # {}) =>
        \A i \in ClassificationReports :
            \E propertyPath \in PathsTo(inputNode.type.members, UnclassifiedType, <<>>) :
                NamesPath(console[i].args, propertyPath)

\* The keys of the schema JSON shape.
SchemaKeys ==
    {"title", "type", "description", "editor", "properties", "required", "default", "prefill",
     "enum", "enumTitles", "id", "uniqueItems", "example", "items", "sectionCaption",
     "sectionDescription"}

\* C17: every key of every node of the canonical schema the forward path
\* returns is one of the keys of the schema JSON shape, whatever tags the
\* documentation comments of the declaration hold.
OnlySchemaKeys ==
    pc \in {"fwd_done", "fwd_printed"} =>
        \A node \in AllNodes(schema) :
            \A i \in 1..Len(node) : node[i].k \in SchemaKeys

-----------------------------------------------------------------------------
(* multiactor-type-to-json: getDefaultsFromInputAssignMultiple *)

\* A syntax node: its kind, the words of its name (none when the node has no
\* name) and its children.
SyntaxNode(kind, name, children) == [kind |-> kind, name |-> name, children |-> children]

\* undefined, where a node is expected
NoNode == SyntaxNode("undefined", <<>>, <<>>)

RECURSIVE findSyntaxKind(_, _)
\* The statement itself when it is of the kind, else the first child in
\* which the search finds something (Array.prototype.find returns the child).
findSyntaxKind(statement, kind) ==
    IF statement.kind = kind THEN statement
    ELSE LET Holds(child) == findSyntaxKind(child, kind) # NoNode
             holding == SelectSeq(statement.children, Holds)
         IN  IF holding = <<>> THEN NoNode ELSE holding[1]

\* pattern.test(name) for the patterns of the bounded runs, on the words of
\* a name: '.*Input' finds 'Input' anywhere in the name.
RegExpTest(pattern, name) ==
    CASE pattern = ".*Input" -> \E i \in 1..Len(name) : name[i] = "Input"
      [] pattern = ".*Input$" -> name # <<>> /\ name[Len(name)] = "Input"
      [] pattern = "^Config$" -> name = <<"Config">>
      [] OTHER -> FALSE

\* The search of one statement: an interface declaration, else a type alias.
FoundIn(child) ==
    IF findSyntaxKind(child, "InterfaceDeclaration") # NoNode
    THEN findSyntaxKind(child, "InterfaceDeclaration")
    ELSE findSyntaxKind(child, "TypeAliasDeclaration")

\* found.name.escapedText === ignoreTypeName
IsIgnored(name, ignoreTypeName) == Join(name, "") = ignoreTypeName

RECURSIVE SelectStatements(_, _, _)
\* The loop over sourceFile.statements, the statements last first: the nodes
\* pushed and the names processed, or the TypeError of reading the name of a
\* node that has none.
SelectStatements(reversedStatements, ignoreTypeName, pattern) ==
    IF reversedStatements = <<>>
    THEN [crashed |-> FALSE, alreadyProcessed |-> <<>>, inputNodes |-> <<>>]
    ELSE LET before == SelectStatements(Tail(reversedStatements), ignoreTypeName, pattern)
             found == FoundIn(Head(reversedStatements))
         IN  IF before.crashed \/ found = NoNode THEN before
             ELSE IF found.name = <<>>
             THEN [crashed |-> TRUE, alreadyProcessed |-> <<>>, inputNodes |-> <<>>]
             ELSE IF ~RegExpTest(pattern, found.name)
                     /\ ~Includes(before.alreadyProcessed, Join(found.name, ""))
             THEN before
             ELSE IF IsIgnored(found.name, ignoreTypeName) THEN before
             ELSE [crashed |-> FALSE,
                   alreadyProcessed |-> Append(before.alreadyProcessed, Join(found.name, "")),
                   inputNodes |-> Append(before.inputNodes, found)]

getDefaultsFromInputAssignMultiple(sourceFile, ignoreTypeName, pattern) ==
    SelectStatements(Reverse(sourceFile), ignoreTypeName, pattern)

\* Most statements of a source file.
MaxStatements == 3

InterfaceDeclaration(name) == SyntaxNode("InterfaceDeclaration", name, <<>>)

TypeAliasDeclaration(name) == SyntaxNode("TypeAliasDeclaration", name, <<>>)

\* const x = 1
VariableStatement == SyntaxNode("VariableStatement", <<>>, <<>>)

\* function f() { interface FooInput {} }: a declaration inside a block
FunctionWithLocalInterface ==
    SyntaxNode("FunctionDeclaration", <<"f">>,
               <<SyntaxNode("Identifier", <<>>, <<>>),
                 SyntaxNode("Block", <<>>, <<InterfaceDeclaration(<<"Foo", "Input">>)>>)>>)

Statements ==
    {InterfaceDeclaration(name) :
        name \in {<<"Foo", "Input">>, <<"Bar", "Input">>, <<"Input", "Helper">>, <<"Config">>}}
    \cup {TypeAliasDeclaration(name) : name \in {<<"Foo", "Input">>, <<"Settings">>}}
    \cup {VariableStatement, FunctionWithLocalInterface}

RECURSIVE SourceFiles(_)
\* The source files of n statements.
SourceFiles(n) ==
    IF n = 0 THEN {<<>>}
    ELSE {Append(file, statement) : file \in SourceFiles(n - 1), statement \in Statements}

\* --typeRegex: the default and two other patterns
DefaultTypeRegex == ".*Input"

TypeRegexes == {DefaultTypeRegex, ".*Input$", "^Config$"}

\* --ignoreSpecificType: the default '' and two names
IgnoredTypeNames == {"", "FooInput", "Config"}

SelectInit ==
    /\ pc = "sel_start"
    /\ inputNode \in {[statements |-> file, typeRegex |-> pattern, ignoreSpecificType |-> ignored] :
                        file \in UNION {SourceFiles(n) : n \in 0..MaxStatements},
                        pattern \in TypeRegexes, ignored \in IgnoredTypeNames}
    /\ unorderedSchema = Idle
    /\ schema = Idle
    /\ recleaned = Idle
    /\ inputDefaults = Idle
    /\ emitArgs = Idle
    /\ output = Idle
    /\ batch = Idle
    /\ console = <<>>
    /\ inputNodes = Idle

\* const { inputNodes } = getDefaultsFromInputAssignMultiple(...)
SelectDeclarations ==
    /\ pc = "sel_start"
    /\ LET selected == getDefaultsFromInputAssignMultiple(
                           inputNode.statements, inputNode.ignoreSpecificType, inputNode.typeRegex)
       IN  IF selected.crashed
           THEN /\ pc' = "crashed"
                /\ UNCHANGED inputNodes
           ELSE /\ pc' = "sel_found"
                /\ inputNodes' = selected.inputNodes
    /\ UNCHANGED <<unorderedSchema, schema, recleaned, inputNode, inputDefaults, emitArgs, output,
                   batch, console>>

\* if (!inputNodes.length) { console.error(...); process.exit(1) }
SelectCheck ==
    /\ pc = "sel_found"
    /\ IF inputNodes = <<>>
       THEN /\ pc' = "exited"
            /\ console' = Append(console,
                    Printed("stderr",
                            <<"No '/" \o inputNode.typeRegex \o "/' type found in the supplied file.">>))
       ELSE /\ pc' = "sel_selected"
            /\ UNCHANGED console
    /\ UNCHANGED <<unorderedSchema, schema, recleaned, inputNode, inputDefaults, emitArgs, output,
                   batch, inputNodes>>

SelectNext == SelectDeclarations \/ SelectCheck

SpecSelect == SelectInit /\ [][SelectNext]_vars

\* The top-level interface and type alias declarations of a file whose name
\* matches the pattern and is not the ignored name, in source order.
MatchingDeclarations(file, pattern, ignored) ==
    LET Matching(statement) ==
            /\ statement.kind \in {"InterfaceDeclaration", "TypeAliasDeclaration"}
            /\ RegExpTest(pattern, statement.name)
            /\ Join(statement.name, "") # ignored
    IN  SelectSeq(file, Matching)

\* The declarations the run has selected: none before the function returns.
Selected == IF pc \in {"sel_found", "sel_selected", "exited"} THEN inputNodes ELSE <<>>

\* C19: getDefaultsFromInputAssignMultiple selects, in source order, exactly
\* the top-level interface and type alias declarations whose name matches
\* the pattern and is not the ignored name.
SelectsMatchingDeclarations ==
    pc # "sel_start" =>
        Selected = MatchingDeclarations(inputNode.statements, inputNode.typeRegex,
                                        inputNode.ignoreSpecificType)

\* C20: with the default pattern every declaration selected has a name that
\* ends in 'Input'.
DefaultPatternSelectsInputSuffix ==
    (pc # "sel_start" /\ inputNode.typeRegex = DefaultTypeRegex) =>
        \A i \in 1..Len(Selected) : Selected[i].name[Len(Selected[i].name)] = "Input"

-----------------------------------------------------------------------------
(* Declaration names and ids of the reverse batch *)

RECURSIVE PascalFold(_, _)
\* The characters of a name without its hyphens, each character that
\* followed a hyphen in upper case; 'raise' tells that the next character
\* follows a hyphen.
PascalFold(chars, raise) ==
    IF chars = <<>> THEN <<>>
    ELSE IF Head(chars) = "-" THEN PascalFold(Tail(chars), TRUE)
    ELSE <<IF raise THEN ToUpperCase(Head(chars)) ELSE Head(chars)>>
             \o PascalFold(Tail(chars), FALSE)

\* The PascalCase folding of a directory name: no hyphen, an upper-case
\* first character, an upper-case character after each hyphen.
PascalCase(chars) == Join(PascalFold(chars, TRUE), "")

\* The text holds the line that opens the declaration of that name.
Declares(text, name) == \E i \in 1..Len(text) : text[i] = <<"type ", name, " = {">>

\* C21: for every unit directory name d the batch emits a declaration named
\* PascalCase(d) + 'Input', and the schema handed to the emitter has 'id'
\* equal to d, whatever 'id' the unit's schema file stores.
UnitDeclaredUnderPascalName ==
    \A i \in 1..Len(batch.types) :
        /\ Declares(batch.types[i], PascalCase(batch.actorsFolder[i].dir) \o "Input")
        /\ i = Len(batch.types) =>
              /\ emitArgs.name = PascalCase(batch.actorsFolder[i].dir) \o "Input"
              /\ Get(emitArgs.schema, "id") = Str(Join(batch.actorsFolder[i].dir, ""))

-----------------------------------------------------------------------------
(* convertTypeToSchema on one member *)

\* The types of a member: one of each shape the checker supplies.
ClassifiedTypes ==
    {StringType, NumberType, BooleanType, StringLiteralType, AnyObjectType, UnclassifiedType,
     ArrayType, ObjectType(<<>>), ObjectType(<<Member("c", FALSE, <<>>, StringType)>>),
     EnumLiteralType}
    \cup {UnionType(Branches(n)) : n \in 2..MaxBranches}
    \cup {EnumType(Branches(n)) : n \in 2..MaxBranches}

\* The documentation comments of the member: the tags read as they are.
ClassifiedDocs ==
    ReqDefDocs
    \cup { <<Tag("title", "Name"), Tag("description", "Name of the Account")>>,
           <<Tag("editor", "select")>>,
           <<Tag("type", "number")>>,
           <<Tag("enum", "x")>>,
           <<Tag("uniqueItems", "true")>> }

ClassifyInit ==
    /\ pc = "cls_start"
    /\ inputNode \in {Member("a", FALSE, doc, type) : doc \in ClassifiedDocs, type \in ClassifiedTypes}
    /\ unorderedSchema = Idle
    /\ schema = Idle
    /\ recleaned = Idle
    /\ inputDefaults = Idle
    /\ emitArgs = Idle
    /\ output = Idle
    /\ batch = Idle
    /\ console = <<>>
    /\ inputNodes = Idle

\* convertTypeToSchema(checker, checker.getTypeOfSymbol(property), propertyDoc,
\*                     [...propertyPath, property.name])
ClassifyMember ==
    /\ pc = "cls_start"
    /\ LET propertySchema == convertTypeToSchema(inputNode.type, JsDocOf(inputNode), <<inputNode.name>>)
       IN  IF IsExit(propertySchema)
           THEN /\ pc' = "exited"
                /\ console' = console \o ExitReport(propertySchema)
                /\ UNCHANGED output
           ELSE /\ pc' = "cls_done"
                /\ output' = propertySchema
                /\ UNCHANGED console
    /\ UNCHANGED <<unorderedSchema, schema, recleaned, inputNode, inputDefaults, emitArgs, batch,
                   inputNodes>>

\* The earlier variant of convertPrimitiveToSchema:
\* { ...doc, type, editor: doc.editor || <the type's editor> }
part001_convertPrimitiveToSchema(type, doc) ==
    IF HasFlag(type, "String")
    THEN Spread(doc, <<Entry("type", Str("string")),
                       Entry("editor", OrElse(Get(doc, "editor"), Str("textfield")))>>)
    ELSE IF HasFlag(type, "Number")
    THEN Spread(doc, <<Entry("type", Str("integer")),
                       Entry("editor", OrElse(Get(doc, "editor"), Str("number")))>>)
    ELSE IF HasFlag(type, "Boolean")
    THEN Spread(doc, <<Entry("type", Str("boolean")),
                       Entry("editor", OrElse(Get(doc, "editor"), Str("checkmark")))>>)
    ELSE Spread(doc, <<Entry("type", Str("string")),
                       Entry("editor", OrElse(Get(doc, "editor"), Str("textfield")))>>)

\* The earlier variant on a member it takes for a primitive; the tags of the
\* bounded comments are read alike by both variants of getJsDocFromNode.
ClassifyPrimitiveEarlier ==
    /\ pc = "cls_start"
    /\ ~IsEnumLike(inputNode.type)
    /\ ~HasFlag(inputNode.type, "Object")
    /\ ~HasFlag(inputNode.type, "NonPrimitive")
    /\ output' = part001_convertPrimitiveToSchema(inputNode.type, JsDocOf(inputNode))
    /\ pc' = "cls_earlier"
    /\ UNCHANGED <<unorderedSchema, schema, recleaned, inputNode, inputDefaults, emitArgs, batch,
                   console, inputNodes>>

ClassifyNext == ClassifyMember \/ ClassifyPrimitiveEarlier

SpecClassify == ClassifyInit /\ [][ClassifyNext]_vars

\* The rules of the classification, by number.
MatchesRule(rule, type) ==
    CASE rule = 1 -> \/ HasFlag(type, "Enum")
                     \/ HasFlag(type, "EnumLiteral")
                     \/ (HasFlag(type, "Union") /\ type # BooleanType)
      [] rule = 2 -> HasFlag(type, "Object")
      [] rule = 3 -> ~HasFlag(type, "NonPrimitive")
      [] rule = 4 -> type = AnyObjectType
      [] OTHER -> TRUE

\* The first rule a type matches; 5 when it matches none.
EarliestRule(type) ==
    CHOOSE rule \in 1..5 :
        /\ MatchesRule(rule, type)
        /\ \A earlier \in 1..(rule - 1) : ~MatchesRule(earlier, type)

\* The documentation mapping handed to the converters of the member.
ClassifiedDoc == DefaultDescription(JsDocOf(inputNode))

\* C22: a type is converted by the first rule it matches, in the order
\* enum-like, object-like (an array type as an array, any other by its
\* members), primitive, any-object marker, and the run aborts for a type that
\* matches none; the boolean type is converted as a primitive.
ClassifiedByFirstRule ==
    pc # "cls_start" =>
        CASE EarliestRule(inputNode.type) = 1 ->
                 /\ pc = "cls_done"
                 /\ HasKey(output, "enum")
                 /\ ~HasKey(output, "properties")
          [] EarliestRule(inputNode.type) = 2 ->
                 /\ pc = "cls_done"
                 /\ IF inputNode.type.isArray
                    THEN HasKey(output, "uniqueItems") /\ ~HasKey(output, "properties")
                    ELSE HasKey(output, "properties")
          [] EarliestRule(inputNode.type) = 3 ->
                 /\ pc = "cls_done"
                 /\ output = convertPrimitiveToSchema(inputNode.type, ClassifiedDoc)
                 /\ inputNode.type = BooleanType => Get(output, "type") = Str("boolean")
          [] EarliestRule(inputNode.type) = 4 ->
                 /\ pc = "cls_done"
                 /\ output = Put(ClassifiedDoc, "type", Str("object"))
          [] OTHER -> pc = "exited"

\* C23: the node emitted for an enum-like type has 'type' equal to 'string'
\* and 'enum' equal to the ordered literal values of the branches, whatever
\* tags the member's documentation comment holds.
EnumNodeIsStringWithBranchValues ==
    (pc = "cls_done" /\ IsEnumLike(inputNode.type)) =>
        /\ Get(output, "type") = Str("string")
        /\ Get(output, "enum") = List(inputNode.type.types)

\* The type and the default editor the claim gives a primitive.
PrimitiveTypeOf(type) ==
    CASE type = StringType -> "string"
      [] type = NumberType -> "integer"
      [] type = BooleanType -> "boolean"
      [] OTHER -> "string"

DefaultEditorOf(type) ==
    CASE type = StringType -> "textfield"
      [] type = NumberType -> "number"
      [] type = BooleanType -> "checkmark"
      [] OTHER -> "textfield"

\* Whether the member's comment holds an @editor tag.
HasEditorTag == \E i \in 1..Len(inputNode.doc) : inputNode.doc[i].name = "editor"

\* The node has the type and the editor the claim gives the member.
PrimitiveNodeAsClaimed ==
    /\ Get(output, "type") = Str(PrimitiveTypeOf(inputNode.type))
    /\ Get(output, "editor") = IF HasEditorTag THEN Get(JsDocOf(inputNode), "editor")
                               ELSE Str(DefaultEditorOf(inputNode.type))

\* C24: the node emitted for a primitive has type 'string' for string,
\* 'integer' for number, 'boolean' for boolean and 'string' for any other
\* primitive, and its 'editor' is the @editor annotation when there is one and
\* else the default editor of the type.
PrimitiveNodeHasTypeAndEditor ==
    (pc \in {"cls_done", "cls_earlier"} /\ EarliestRule(inputNode.type) = 3) =>
        PrimitiveNodeAsClaimed

-----------------------------------------------------------------------------
(* Undefined values after the normalizer *)

\* The keys of a raw node whose value the normalizer is to keep: defined, and
\* not the 'required' of a node that is no object.
KeptKeys(raw) ==
    {raw[i].k : i \in {j \in 1..Len(raw) :
                          /\ raw[j].v # Undef
                          /\ ~(raw[j].k = "required" /\ Get(raw, "type") # Str("object"))}}

\* C25: after cleanUpSchema no node of the tree, at any level ('properties'
\* values and nested schemas alike), has a key whose value is undefined, and
\* every key of the root with a defined value, other than the 'required' of a
\* node that is no object, is still there.
NoUndefinedAtAnyLevel ==
    pc = "norm_once" =>
        /\ \A node \in AllNodes(schema) : \A i \in 1..Len(node) : node[i].v # Undef
        /\ \A k \in KeptKeys(unorderedSchema) : HasKey(schema, k)
        /\ \A k \in KeptKeys(unorderedSchema) \ {"properties"} :
               Get(schema, k) = Get(unorderedSchema, k)

-----------------------------------------------------------------------------
(* The schema argument after convertSchemaToType, and nested members *)

\* C26: convertSchemaToType leaves the schema tree it is given as it was:
\* after the call every node has the keys and values it had before.
SchemaArgumentUnchanged == pc = "emit_done" => schema = emitArgs.schema

RECURSIVE PropertiesAt(_, _)
\* The properties of a tree with their depth: the members of the node at
\* depth + 1, and the members of every member below.
PropertiesAt(node, depth) ==
    IF ~HasKey(node, "properties") THEN {}
    ELSE LET members == Get(node, "properties").p
         IN  {[name |-> members[i].k, level |-> depth + 1] : i \in 1..Len(members)}
             \cup UNION {PropertiesAt(members[i].v, depth + 1) : i \in 1..Len(members)}

\* The text declares a property at a level: a field line with the padding
\* of the level, or the opening of a block of that name.
DeclaresProperty(text, property) ==
    \E i \in 1..Len(text) :
        \/ Len(text[i]) = 5 /\ text[i][1] = Padding(property.level) /\ text[i][2] = property.name
        \/ text[i] = <<"type ", property.name, " = {">>

\* C28: for a schema whose root is an object with an id, the text holds a
\* declaration line for every property at every depth, the members of a
\* nested object included, with or without an id of its own.
EveryPropertyDeclared ==
    (pc = "emit_done" /\ IsStandalone(emitArgs.schema)) =>
        \A property \in PropertiesAt(emitArgs.schema, emitArgs.level) :
            DeclaresProperty(output, property)

-----------------------------------------------------------------------------
(* The 'required' list of the latest walker *)

\* The member's own comment carries a @required tag that evaluates to a
\* truthy value.
TaggedRequired(member) == Truthy(Get(JsDocOf(member), "required"))

\* The members of a type are listed in a node's 'required' exactly when they
\* are tagged, and so are the members of its object-typed members.
RECURSIVE RequiredListsTagged(_, _)
RequiredListsTagged(type, node) ==
    \A i \in 1..Len(type.members) :
        LET member == type.members[i]
        IN  /\ Includes(Get(node, "required").l, member.name) <=> TaggedRequired(member)
            /\ (HasFlag(member.type, "Object") /\ ~member.type.isArray) =>
                   RequiredListsTagged(member.type, Get(Get(node, "properties").p, member.name))

\* C27: in the latest walker a member's name is in the enclosing object's
\* 'required' list if and only if the member's own comment carries a
\* @required tag that evaluates to a truthy value, whatever the member's type.
RequiredIffTagged ==
    pc = "fwd_walked" => RequiredListsTagged(inputNode.type, unorderedSchema)

-----------------------------------------------------------------------------
(* multiactor-type-to-json: conversion of the selected declarations, then
   the output of their schemas *)

\* Most declarations selected from a source file.
MaxDeclarations == 3

\* A selected declaration: its comment (with an @id tag unless id is '') and
\* its members.
SelectedDeclaration(id, members) ==
    [doc |-> (IF id = "" THEN <<>> ELSE <<Tag("id", id)>>) \o <<Tag("title", "Input")>>,
     type |-> ObjectType(members)]

\* Declarations that convert, with distinct ids, the same id or none, and
\* declarations on which the conversion ends the run: an unclassified
\* member, a malformed evaluable tag, a member typed by one enum member.
SelectedDeclarations ==
    { SelectedDeclaration("u1", <<Member("a", FALSE, <<>>, StringType)>>),
      SelectedDeclaration("u2", <<Member("a", FALSE, <<Tag("required", "true")>>, NumberType)>>),
      SelectedDeclaration("", <<Member("a", FALSE, <<>>, ArrayType)>>),
      SelectedDeclaration("u3", <<Member("a", FALSE, <<>>, UnclassifiedType)>>),
      SelectedDeclaration("u4", <<Member("a", FALSE, <<Tag("default", MalformedText)>>, StringType)>>),
      SelectedDeclaration("u5", <<Member("a", FALSE, <<>>, EnumLiteralType)>>) }

RECURSIVE SelectedLists(_)
\* The lists of n selected declarations.
SelectedLists(n) ==
    IF n = 0 THEN {<<>>}
    ELSE {Append(nodes, node) : nodes \in SelectedLists(n - 1), node \in SelectedDeclarations}

\* The destination: no directory, no file, nothing printed.
NothingWritten == [dirs |-> {}, files |-> <<>>, stdout |-> <<>>]

\* The run after getDefaultsFromInputAssignMultiple returned a non-empty
\* list; 'write' is the --write folder ('' when the option is not given),
\* 'exists' tells whether that folder exists.
WriteInit ==
    /\ pc = "mw_selected"
    /\ inputNodes \in UNION {SelectedLists(n) : n \in 1..MaxDeclarations}
    /\ emitArgs \in {[write |-> write, exists |-> exists] :
                        write \in {"", "out"}, exists \in BOOLEAN}
    /\ unorderedSchema = <<>>
    /\ schema = <<>>
    /\ output = NothingWritten
    /\ recleaned = Idle
    /\ inputNode = Idle
    /\ inputDefaults = Idle
    /\ batch = Idle
    /\ console = <<>>

\* One element of inputNodes.map(convertInputIntoSchema); an exit of the
\* conversion ends the run.
WriteConvert ==
    /\ pc = "mw_selected"
    /\ Len(unorderedSchema) < Len(inputNodes)
    /\ LET converted == convertInputIntoSchema(inputNodes[Len(unorderedSchema) + 1])
       IN  IF IsExit(converted)
           THEN /\ pc' = "exited"
                /\ console' = console \o ExitReport(converted)
                /\ UNCHANGED unorderedSchema
           ELSE /\ unorderedSchema' = Append(unorderedSchema, converted)
                /\ UNCHANGED <<pc, console>>
    /\ UNCHANGED <<schema, recleaned, inputNode, inputDefaults, emitArgs, output, batch,
                   inputNodes>>

\* One element of .map(cleanUpSchema), entered once the first map has ended.
WriteCleanUp ==
    /\ pc = "mw_selected"
    /\ Len(unorderedSchema) = Len(inputNodes)
    /\ Len(schema) < Len(unorderedSchema)
    /\ schema' = Append(schema, cleanUpSchema(unorderedSchema[Len(schema) + 1]))
    /\ UNCHANGED <<pc, unorderedSchema, recleaned, inputNode, inputDefaults, emitArgs, output,
                   batch, console, inputNodes>>

\* The loop entered before every schema is there.
SchemasReturnedOrNot(nodes, schemas) == TRUE

\* getSchemaFromSourcePathMultiple has returned: every declaration is
\* converted and normalized.
SchemasReturned(nodes, schemas) == Len(schemas) = Len(nodes)

\* `${options.write}/${schema.id}`
InputSchemaPath(write, node) == write \o "/" \o StringOf(Get(node, "id"))

\* JSON.stringify(schema, null, 4), the indentation of the text left out
SchemaJson(node) == JsonText(Nested(JsonStringify(node)))

\* The schemas handled so far by the loop of the action.
Handled(destination) == Len(destination.files) + Len(destination.stdout)

\* One pass of 'for (const schema of schemas)': with --write the unit's
\* directories are made when missing (mkdirSync throws when the folder given
\* does not exist) and the schema, its id deleted, is written to
\* INPUT_SCHEMA.json; without, the schema is printed.
WriteSchema ==
    /\ pc = "mw_selected"
    /\ SchemasReturned(inputNodes, schema)
    /\ Handled(output) < Len(schema)
    /\ LET node == schema[Handled(output) + 1]
           inputSchemaPath == InputSchemaPath(emitArgs.write, node)
           last == Handled(output) + 1 = Len(schema)
       IN  IF emitArgs.write = ""
           THEN /\ output' = [output EXCEPT !.stdout = Append(@, SchemaJson(node))]
                /\ pc' = IF last THEN "mw_done" ELSE pc
           ELSE IF ~emitArgs.exists /\ inputSchemaPath \notin output.dirs
           THEN /\ pc' = "crashed"
                /\ UNCHANGED output
           ELSE /\ output' = [output EXCEPT
                                !.dirs = @ \cup {inputSchemaPath, inputSchemaPath \o "/.actor"},
                                !.files = Append(@, [path |-> inputSchemaPath \o "/.actor/INPUT_SCHEMA.json",
                                                     content |-> SchemaJson(Delete(node, "id"))])]
                /\ pc' = IF last THEN "mw_done" ELSE pc
    /\ UNCHANGED <<unorderedSchema, schema, recleaned, inputNode, inputDefaults, emitArgs, batch,
                   console, inputNodes>>

WriteNext == WriteConvert \/ WriteCleanUp \/ WriteSchema

SpecWrite == WriteInit /\ [][WriteNext]_vars

\* The conversion of a declaration ends the run.
Fatal(node) == IsExit(convertInputIntoSchema(node))

\* The keys of a schema other than 'id'.
NotId(entry) == entry.k # "id"

\* The file the action is to write for a declaration.
ExpectedFile(write, node) ==
    LET normalized == cleanUpSchema(convertInputIntoSchema(node))
    IN  [path |-> write \o "/" \o StringOf(Get(normalized, "id")) \o "/.actor/INPUT_SCHEMA.json",
         content |-> SchemaJson(SelectSeq(normalized, NotId))]

\* C29: with --write set no directory and no file is created before every
\* selected declaration is converted and normalized; a run that a conversion
\* ends leaves the destination untouched; and a run that completes has
\* written one schema file per declaration, in source order, without the
\* 'id' key.
WritesFollowConversions ==
    /\ (output.dirs # {} \/ output.files # <<>>) =>
          /\ \A i \in 1..Len(inputNodes) : ~Fatal(inputNodes[i])
          /\ Len(unorderedSchema) = Len(inputNodes)
          /\ Len(schema) = Len(inputNodes)
    /\ (\E i \in 1..Len(inputNodes) : Fatal(inputNodes[i])) =>
          /\ output = NothingWritten
          /\ pc \in {"mw_selected", "exited"}
    /\ pc = "exited" => output = NothingWritten
    /\ (pc = "mw_done" /\ emitArgs.write # "") =>
          output.files = [i \in 1..Len(inputNodes) |-> ExpectedFile(emitArgs.write, inputNodes[i])]

\* A completed run with --write over several declarations, one of them with
\* an id of its own.
WritesFollowConversionsWitness ==
    /\ pc = "mw_done"
    /\ emitArgs.write # ""
    /\ Len(output.files) >= 2
    /\ \E i \in 1..Len(schema) : HasKey(schema[i], "id")

-----------------------------------------------------------------------------
(* findSyntaxKind: the two implementations *)

RECURSIVE index_findSyntaxKind(_, _)
\* src/index.ts: the statement itself when it is of the kind, else the first
\* node the search finds in a child.
index_findSyntaxKind(statement, kind) ==
    IF statement.kind = kind THEN statement
    ELSE LET Holds(child) == index_findSyntaxKind(child, kind) # NoNode
             holding == SelectSeq(statement.children, Holds)
         IN  IF holding = <<>> THEN NoNode ELSE index_findSyntaxKind(holding[1], kind)

\* Deepest nesting of the syntax trees searched.
MaxNesting == 2

SyntaxKinds == {"InterfaceDeclaration", "Block", "Identifier"}

RECURSIVE SyntaxTrees(_)
\* The trees of a nesting depth: a node without children, with one child, or
\* with an identifier and a child.
SyntaxTrees(depth) ==
    {SyntaxNode(kind, <<>>, <<>>) : kind \in SyntaxKinds}
    \cup (IF depth = 0 THEN {}
          ELSE {SyntaxNode(kind, <<>>, <<child>>) :
                    kind \in SyntaxKinds, child \in SyntaxTrees(depth - 1)}
               \cup {SyntaxNode(kind, <<>>, <<SyntaxNode("Identifier", <<>>, <<>>), child>>) :
                        kind \in SyntaxKinds, child \in SyntaxTrees(depth - 1)})

FindInit ==
    /\ pc = "find_start"
    /\ inputNode \in {[statement |-> statement, kind |-> kind] :
                        statement \in SyntaxTrees(MaxNesting), kind \in SyntaxKinds}
    /\ unorderedSchema = Idle
    /\ schema = Idle
    /\ recleaned = Idle
    /\ inputDefaults = Idle
    /\ emitArgs = Idle
    /\ output = Idle
    /\ batch = Idle
    /\ console = <<>>
    /\ inputNodes = Idle

\* findSyntaxKind of the later variants (Array.find)
FindLatest ==
    /\ pc = "find_start"
    /\ output' = findSyntaxKind(inputNode.statement, inputNode.kind)
    /\ pc' = "find_latest"
    /\ UNCHANGED <<unorderedSchema, schema, recleaned, inputNode, inputDefaults, emitArgs, batch,
                   console, inputNodes>>

\* findSyntaxKind of src/index.ts (recursive loop)
FindEarliest ==
    /\ pc = "find_start"
    /\ output' = index_findSyntaxKind(inputNode.statement, inputNode.kind)
    /\ pc' = "find_earliest"
    /\ UNCHANGED <<unorderedSchema, schema, recleaned, inputNode, inputDefaults, emitArgs, batch,
                   console, inputNodes>>

FindNext == FindLatest \/ FindEarliest

SpecFind == FindInit /\ [][FindNext]_vars

RECURSIVE Descendants(_)
\* A node and every node below it.
Descendants(node) ==
    {node} \cup UNION {Descendants(node.children[i]) : i \in 1..Len(node.children)}

\* The result is a node of the kind among the node and its descendants, or
\* undefined when there is none.
FoundOfKind ==
    IF \E node \in Descendants(inputNode.statement) : node.kind = inputNode.kind
    THEN output \in Descendants(inputNode.statement) /\ output.kind = inputNode.kind
    ELSE output = NoNode

\* C30: both implementations of findSyntaxKind return a node of the
\* requested kind that is the node itself or one of its descendants at any
\* depth, and undefined exactly when there is no such node.
FindsNodeOfKind == pc \in {"find_latest", "find_earliest"} => FoundOfKind

====
